---- MODULE Spec2Model ----
(***************************************************************************)
(* Write-back caching and asynchronous persistence pipeline of             *)
(* go-polyglot-persistence: the API handlers (internal/api), the Redis     *)
(* cache (internal/cache), the RabbitMQ publisher / consumer               *)
(* (internal/queue), the worker (internal/worker), the Postgres layer      *)
(* (internal/database) and the Elasticsearch projection (internal/search). *)
(***************************************************************************)
EXTENDS Integers, Sequences, FiniteSets, TLC

\* ------------------------------------------------------------------ bounds
\* Number of POST /api/orders requests over a behaviour.
MaxOrders == 2
\* Number of POST /api/bulk-orders requests over a behaviour.
MaxBulk == 2
\* Number of undecodable messages other publishers put on order_queue.
MaxForeign == 1
\* Days of orders stored before the first request (one order a day).
MaxHistory == 31

\* ------------------------------------------------------- program constants
\* ch.Qos(1, 0, false): at most one unacknowledged delivery per consumer.
prefetchCount == 1
\* GetSales: ... ORDER BY sale_date DESC LIMIT 30.
salesLimit == 30
\* Hours: the lifetime SetOrder gives a cache entry.
orderTTL == 24
\* Seconds: the deadline of srv.Shutdown and of one view refresh.
shutdownTimeout == 10
refreshTimeout == 300

\* Seconds: the deadline of one processing attempt of the worker, and of one
\* write statement of the database layer.
perMessageTimeout == 10
writeTimeout == 5

\* A context without a deadline: context.Background(), or the context of an
\* HTTP request (the server's WriteTimeout does not cancel it).
NoDeadline == 0 - 1

\* context.WithTimeout(parent, d), as seconds from now: the earlier of the
\* parent's deadline and d.
WithTimeout(parent, d) ==
    IF parent = NoDeadline \/ d < parent THEN d ELSE parent

\* Worker service instances (each runs cmd/worker main with its own consumer):
\* w1 runs from the start, w2 is a second instance that may be started.
Workers == {"w1", "w2"}

\* Values time.Now().UTC() / NOW() can take (days).
Days == {1, 2}

\* The POST /api/orders requests tried: the body {"product_name": ...,
\* "amount": ...} (amount in cents) and the time it arrives at.
Requests ==
    { [payload |-> [product_name |-> "Laptop", amount |-> 129999], now |-> 1],
      [payload |-> [product_name |-> "Mouse", amount |-> 2500], now |-> 2] }

Ids == 1..MaxOrders

None == [none |-> TRUE]

Outcomes == {"ok", "err"}

\* ------------------------------------------------------------ conversions
\* json.Marshal of a models.Order: a JSON object keyed by the json tags.
Marshal(o) ==
    [valid |-> TRUE, id |-> o.ID, product_name |-> o.ProductName,
     amount |-> o.Amount, created_at |-> o.CreatedAt]

\* A body json.Unmarshal rejects.
Malformed == [valid |-> FALSE]

\* json.Unmarshal(body, &order) returns nil.
Decodable(body) == body.valid

\* json.Unmarshal into a models.Order (defined on decodable bodies).
Unmarshal(body) ==
    [ID |-> body.id, ProductName |-> body.product_name,
     Amount |-> body.amount, CreatedAt |-> body.created_at]

\* ------------------------------------------------------------ Record Store
\* "orders" is the committed content of the table, a sequence of rows
\* [id, product_name, amount, created_at] in commit order.

RowsOf(tbl, id) == {k \in 1..Len(tbl) : tbl[k].id = id}

\* The orders columns amount and created_at keep the value they are given
\* (the table definition is not part of internal/database).
StoredAmount(a) == a
StoredTimestamp(t) == t

OrderRow(o) ==
    [id |-> o.ID, product_name |-> o.ProductName,
     amount |-> StoredAmount(o.Amount),
     created_at |-> StoredTimestamp(o.CreatedAt)]

\* A plain INSERT adding a row on every call: the statement without its
\* ON CONFLICT clause.
InsertRowsNoConflictClause(tbl, o) == Append(tbl, OrderRow(o))

\* INSERT INTO orders (id, ...) VALUES (...) ON CONFLICT (id) DO NOTHING
InsertRows(tbl, o) ==
    IF RowsOf(tbl, o.ID) # {} THEN tbl ELSE Append(tbl, OrderRow(o))

\* A plain INSERT on the primary key: a replay is refused with a
\* unique-violation error.
InsertOrderUniqueViolation(tbl, o, res) ==
    IF res = "ok" /\ RowsOf(tbl, o.ID) = {}
      THEN [rows |-> Append(tbl, OrderRow(o)), err |-> FALSE]
      ELSE [rows |-> tbl, err |-> TRUE]

\* db.InsertOrderIdempotent: the table afterwards and whether an error is
\* returned (res: what Postgres answers within the write timeout).
InsertOrderIdempotent(tbl, o, res) ==
    IF res = "ok" THEN [rows |-> InsertRows(tbl, o), err |-> FALSE]
    ELSE [rows |-> tbl, err |-> TRUE]

\* SELECT id, product_name, amount, created_at FROM orders WHERE id = $1
\* scanned into a models.Order; None stands for sql.ErrNoRows.
SelectOrder(tbl, id) ==
    IF RowsOf(tbl, id) = {} THEN None
    ELSE LET r == tbl[CHOOSE k \in RowsOf(tbl, id) : \A j \in RowsOf(tbl, id) : k <= j]
         IN  [ID |-> r.id, ProductName |-> r.product_name,
              Amount |-> r.amount, CreatedAt |-> r.created_at]

\* ------------------------------------------------------- Search Projection
\* "es" is the orders index, a set of documents [_id, _source].

\* es.Index without WithDocumentID: Elasticsearch generates the _id.
IndexDocAutoId(idx, o) ==
    idx \cup {[_id |-> <<"auto", Cardinality(idx)>>, _source |-> Marshal(o)]}

\* es.Index(ordersIndex, body, WithDocumentID(order.ID)): create or replace.
IndexDoc(idx, o) ==
    {d \in idx : d._id # <<"order", o.ID>>}
        \cup {[_id |-> <<"order", o.ID>>, _source |-> Marshal(o)]}

DocsOf(idx, id) == {d \in idx : d._source.id = id}

\* search.IndexOrder: the index afterwards and whether an error is returned
\* (res: what Elasticsearch answers).
IndexOrder(idx, o, res) ==
    IF res = "ok" THEN [docs |-> IndexDoc(idx, o), err |-> FALSE]
    ELSE [docs |-> idx, err |-> TRUE]

\* ------------------------------------------------------------------ queue
\* Channel.PublishWithContext answering an error although the broker took
\* the message.
PublishedAnyway(q, body, res) == Append(q, body)

\* Channel.PublishWithContext on the default exchange, routing key
\* order_queue: the message is enqueued iff the call returns nil.
Published(q, body, res) == IF res = "ok" THEN Append(q, body) ELSE q

\* Remove one occurrence of a message from a sequence of messages.
RECURSIVE RemoveOne(_, _)
RemoveOne(s, m) ==
    IF s = <<>> THEN <<>>
    ELSE IF Head(s) = m THEN Tail(s)
    ELSE <<Head(s)>> \o RemoveOne(Tail(s), m)

InSeq(s, m) == \E k \in 1..Len(s) : s[k] = m

VARIABLES
    creq,         \* CreateOrder handlers: id -> [pc, order, cacheErr, pubErr]
    cache,        \* Redis: id -> serialized order, or None (order:{id} absent)
    ttl,          \* Redis: id -> hours order:{id} has left to live (0: absent)
    ready,        \* order_queue: messages ready for delivery
    unacked,      \* order_queue: per consumer, delivered and not terminated
    conn,         \* per worker: its AMQP channel is open
    out,          \* per worker: Delivery the Consume goroutine holds on "out"
    wpc,          \* per worker: position in Run / process
    cur,          \* per worker: the Delivery being processed
    elapsed,      \* per worker: seconds of the attempt's context used so far
    orders,       \* Postgres: committed rows of the orders table
    es,           \* Elasticsearch: documents of the orders index
    nForeign,     \* number of undecodable messages published so far
    projFailed,   \* ids whose projection write failed after the primary write
    btx,          \* ProcessBulkOrder: the transaction in flight and its result
    mv,           \* Postgres: rows of the materialized view daily_sales_mv
    refreshed,    \* the orders rows the last successful refresh grouped
    refr,         \* per trigger: a RefreshMaterializedView call is running
    apc,          \* cmd/api main: position (serving, then the shutdown steps)
    ctxDone       \* per worker: the context of Run is cancelled (SIGINT/SIGTERM)

vars ==
    <<creq, cache, ttl, ready, unacked, conn, out, wpc, cur, elapsed, orders,
      es, nForeign, projFailed, btx, mv, refreshed, refr, apc, ctxDone>>

apiVars == <<creq, cache, ttl>>
brokerVars == <<ready, unacked, conn, out, nForeign>>
workerVars == <<wpc, cur, elapsed, projFailed>>
storeVars == <<orders, es>>
sysVars == <<mv, refreshed, refr, apc, ctxDone>>

\* Who starts a refresh: the cron job and POST /api/admin/refresh.
Triggers == {"cron", "manual"}

\* ------------------------------------------------------------------- Init
NoReq == [pc |-> "none", order |-> None, cacheErr |-> FALSE, pubErr |-> FALSE]
NoTx ==
    [n |-> 0, pc |-> "idle", item1 |-> "", item2 |-> "", now |-> 0,
     pending |-> <<>>, status |-> 0, cause |-> ""]

\* Everything but the content of the orders table.
InitButOrders ==
    /\ creq = [i \in Ids |-> NoReq]
    /\ cache = [i \in Ids |-> None]
    /\ ttl = [i \in Ids |-> 0]
    /\ ready = <<>>
    /\ unacked = [w \in Workers |-> <<>>]
    /\ conn = [w \in Workers |-> w = "w1"]
    /\ out = [w \in Workers |-> None]
    /\ wpc = [w \in Workers |-> IF w = "w1" THEN "recv" ELSE "stopped"]
    /\ cur = [w \in Workers |-> None]
    /\ elapsed = [w \in Workers |-> 0]
    /\ es = {}
    /\ nForeign = 0
    /\ projFailed = {}
    /\ btx = NoTx
    /\ mv = {}
    /\ refreshed = <<>>
    /\ refr = [t \in Triggers |-> "idle"]
    /\ apc = "serving"
    /\ ctxDone = [w \in Workers |-> FALSE]

Init == InitButOrders /\ orders = <<>>

\* ------------------------------------------------------------- derived
HasRow(i) == RowsOf(orders, i) # {}
HasDoc(i) == DocsOf(es, i) # {}
Assigned == {i \in Ids : creq[i].pc # "none"}
\* An id generator that hands out the same id again.
RepeatedUUID == CHOOSE i \in Ids : \A j \in Ids : i <= j

\* uuid.New(): an id no request was given before.
NewUUID == Cardinality(Assigned) + 1
BodyOf(i) == Marshal(creq[i].order)
\* The work item of id i is held by the queue, ready or unacknowledged.
InQueue(i) ==
    /\ i \in Assigned
    /\ \/ InSeq(ready, BodyOf(i))
       \/ \E w \in Workers : InSeq(unacked[w], BodyOf(i))

\* =========================================================================
\* Write-Back Cache (internal/cache)
\* =========================================================================

\* A SetOrder that answers nil without storing anything.
SetOrderNoop(c, o, res) == c

\* cache.SetOrder: SET order:{id} <json> EX 24h; on error nothing is stored.
SetOrder(c, o, res) ==
    IF res = "ok" THEN [c EXCEPT ![o.ID] = Marshal(o)] ELSE c

\* The remaining lifetime of a key stored without expiry.
NoExpiry == 0 - 1

\* A SetOrder that stores the entry without an expiry.
SetOrderNoExpiry(t, o, res) ==
    IF res = "ok" THEN [t EXCEPT ![o.ID] = NoExpiry] ELSE t

\* cache.SetOrder, the key's lifetime: a successful SET ... EX 24h gives the
\* key orderTTL from now, whatever it had left.
SetOrderTTL(t, o, res) ==
    IF res = "ok" THEN [t EXCEPT ![o.ID] = orderTTL] ELSE t

\* cache.GetOrder: the order, or None for ErrNotFound, a Redis error or an
\* entry that does not decode.
CacheGet(c, id, res) ==
    IF res = "ok" /\ c[id] # None /\ Decodable(c[id]) THEN Unmarshal(c[id])
    ELSE None

\* =========================================================================
\* Acceptance Path: CreateOrder (internal/api/handlers.go)
\* =========================================================================

\* A CreateOrder that answers 500 and returns when the cache put fails.
CreateBeginCacheFatal(p, now, cres) ==
    /\ NewUUID \in Ids
    /\ LET order == [ID |-> NewUUID, ProductName |-> p.product_name,
                     Amount |-> p.amount, CreatedAt |-> now]
       IN  /\ cache' = SetOrder(cache, order, cres)
           /\ ttl' = SetOrderTTL(ttl, order, cres)
           /\ creq' = [creq EXCEPT ![NewUUID] =
                         [pc |-> IF cres = "ok" THEN "publish" ELSE "failed",
                          order |-> order,
                          cacheErr |-> (cres = "err"), pubErr |-> FALSE]]
    /\ UNCHANGED <<brokerVars, workerVars, storeVars, btx, sysVars>>

\* Lines 68-85: decode, assign id and timestamp, cache put (non-fatal).
CreateBegin(p, now, cres) ==
    /\ apc = "serving"
    /\ NewUUID \in Ids
    /\ LET order == [ID |-> NewUUID, ProductName |-> p.product_name,
                     Amount |-> p.amount, CreatedAt |-> now]
       IN  /\ cache' = SetOrder(cache, order, cres)
           /\ ttl' = SetOrderTTL(ttl, order, cres)
           /\ creq' = [creq EXCEPT ![NewUUID] =
                         [pc |-> "publish", order |-> order,
                          cacheErr |-> (cres = "err"), pubErr |-> FALSE]]
    /\ UNCHANGED <<brokerVars, workerVars, storeVars, btx, sysVars>>

\* Lines 87-95: publish; on failure respond 500 and return.
CreatePublish(i, res) ==
    /\ creq[i].pc = "publish"
    /\ ready' = Published(ready, Marshal(creq[i].order), res)
    /\ creq' = [creq EXCEPT ![i].pc = IF res = "ok" THEN "respond" ELSE "failed",
                            ![i].pubErr = (res = "err")]
    /\ UNCHANGED <<cache, ttl, unacked, conn, out, nForeign, workerVars, storeVars, btx,
                 sysVars>>

\* A CreateOrder that inserts the row itself before it answers.
CreateRespondAfterInsert(i) ==
    /\ creq[i].pc = "respond"
    /\ creq' = [creq EXCEPT ![i].pc = "accepted"]
    /\ orders' = InsertRows(orders, creq[i].order)
    /\ UNCHANGED <<cache, ttl, brokerVars, workerVars, es, btx, sysVars>>

\* Lines 97-107: respond 202 Accepted with the assigned id.
CreateRespond(i) ==
    /\ creq[i].pc = "respond"
    /\ creq' = [creq EXCEPT ![i].pc = "accepted"]
    /\ UNCHANGED <<cache, ttl, brokerVars, workerVars, storeVars, btx, sysVars>>

\* The entry's 24h lifetime ends. It outlasts the request that wrote it
\* (the server's WriteTimeout is 10s).
Expire(i) ==
    /\ cache[i] # None
    /\ creq[i].pc \notin {"publish", "respond"}
    /\ cache' = [cache EXCEPT ![i] = None]
    /\ ttl' = [ttl EXCEPT ![i] = 0]
    /\ UNCHANGED <<creq, brokerVars, workerVars, storeVars, btx, sysVars>>

\* Hours that pass in one step of the clock.
HoursPerTick == 12

\* Time passes (no create is in flight that long: the server's WriteTimeout
\* is 10s): every key loses HoursPerTick of its lifetime, and Redis drops
\* the keys whose lifetime is over.
Tick ==
    /\ \E i \in Ids : ttl[i] > 0
    /\ \A i \in Ids : creq[i].pc \notin {"publish", "respond"}
    /\ ttl' = [i \in Ids |->
                 IF ttl[i] > HoursPerTick THEN ttl[i] - HoursPerTick
                 ELSE IF ttl[i] > 0 THEN 0 ELSE ttl[i]]
    /\ cache' = [i \in Ids |->
                   IF ttl[i] > 0 /\ ttl[i] <= HoursPerTick THEN None ELSE cache[i]]
    /\ UNCHANGED <<creq, brokerVars, workerVars, storeVars, btx, sysVars>>

\* =========================================================================
\* Read Path: GetOrder (internal/api/handlers.go)
\* =========================================================================

\* GetOrder answering 404 for every store error, sql.ErrNoRows or not.
GetOrderResponseAll404(id, cres, dres) ==
    LET hit == CacheGet(cache, id, cres)
        row == SelectOrder(orders, id)
    IN  IF hit # None
          THEN [status |-> 200, xcache |-> "HIT", order |-> hit]
        ELSE IF dres # "ok" \/ row = None
          THEN [status |-> 404, xcache |-> "", order |-> None]
        ELSE [status |-> 200, xcache |-> "MISS", order |-> row]

\* GetOrder answering 404 on a cache miss without asking the store.
GetOrderResponseCacheOnly(id, cres, dres) ==
    LET hit == CacheGet(cache, id, cres)
    IN  IF hit # None
          THEN [status |-> 200, xcache |-> "HIT", order |-> hit]
          ELSE [status |-> 404, xcache |-> "", order |-> None]

\* GetOrder answering 500 when the cache get fails with anything but
\* ErrNotFound.
GetOrderResponseCacheFatal(id, cres, dres) ==
    LET hit == CacheGet(cache, id, cres)
        row == SelectOrder(orders, id)
    IN  IF hit # None
          THEN [status |-> 200, xcache |-> "HIT", order |-> hit]
        ELSE IF cres # "ok"
          THEN [status |-> 500, xcache |-> "", order |-> None]
        ELSE IF dres = "ok" /\ row = None
          THEN [status |-> 404, xcache |-> "", order |-> None]
        ELSE IF dres # "ok"
          THEN [status |-> 500, xcache |-> "", order |-> None]
        ELSE [status |-> 200, xcache |-> "MISS", order |-> row]

\* The response GetOrder writes for id, given what the cache get (cres) and
\* the store lookup (dres) answer.
GetOrderResponse(id, cres, dres) ==
    LET hit == CacheGet(cache, id, cres)
        row == SelectOrder(orders, id)
    IN  IF hit # None
          THEN [status |-> 200, xcache |-> "HIT", order |-> hit]
        ELSE IF dres = "ok" /\ row = None
          THEN [status |-> 404, xcache |-> "", order |-> None]
        ELSE IF dres # "ok"
          THEN [status |-> 500, xcache |-> "", order |-> None]
        ELSE [status |-> 200, xcache |-> "MISS", order |-> row]

\* A GetOrder that also deletes the key when it answers 404 or 500.
BackFillEvicts(id, cres, dres, bres) ==
    LET r == GetOrderResponse(id, cres, dres)
    IN  IF r.xcache = "MISS" THEN SetOrder(cache, r.order, bres)
        ELSE IF r.status # 200 THEN [cache EXCEPT ![id] = None]
        ELSE cache

\* A GetOrder that never writes the record it read back to the cache.
NoBackFill(id, cres, dres, bres) == cache

\* Line 149: the cache after GetOrder for id: on a miss answered by the
\* store, SetOrder of the record read (bres: what that SetOrder answers, its
\* error being dropped); otherwise the cache as it was.
BackFill(id, cres, dres, bres) ==
    LET r == GetOrderResponse(id, cres, dres)
    IN  IF r.xcache = "MISS" THEN SetOrder(cache, r.order, bres) ELSE cache

\* The lifetimes after GetOrder for id: the back-fill's SetOrder restarts
\* the key's.
BackFillTTL(id, cres, dres, bres) ==
    LET r == GetOrderResponse(id, cres, dres)
    IN  IF r.xcache = "MISS" THEN SetOrderTTL(ttl, r.order, bres) ELSE ttl

\* GetOrder for id: the response above and the back-fill.
GetOrder(id, cres, dres, bres) ==
    /\ apc = "serving"
    /\ cache' = BackFill(id, cres, dres, bres)
    /\ ttl' = BackFillTTL(id, cres, dres, bres)
    /\ UNCHANGED <<creq, brokerVars, workerVars, storeVars, btx, sysVars>>

\* =========================================================================
\* Durable Queue: broker and Consume goroutine (internal/queue/queue.go)
\* =========================================================================

\* A publisher other than this API puts a body on order_queue that does not
\* decode into an Order.
ForeignPublish ==
    /\ nForeign < MaxForeign
    /\ nForeign' = nForeign + 1
    /\ ready' = Append(ready, Malformed)
    /\ UNCHANGED <<unacked, conn, out, apiVars, workerVars, storeVars, btx,
                 sysVars>>

\* Consumer w takes deliveries although one is unacknowledged (no Qos call).
NoPrefetchLimit(w) == conn[w] /\ wpc[w] # "stopped"

\* The broker may push a delivery to consumer w: the channel is open, the
\* consumer is registered and fewer than prefetchCount deliveries are
\* unacknowledged.
CanDeliver(w) ==
    conn[w] /\ wpc[w] # "stopped" /\ Len(unacked[w]) < prefetchCount

\* basic.nack with requeue=false: the message is dropped, not requeued.
NotRequeued(q, m) == q

\* What basic.nack(requeue=true) / a dropped channel does with a message:
\* it goes back to the queue, at its head.
Requeued(q, m) == <<m>> \o q

\* A broker that forgets the unacknowledged deliveries of a channel that
\* closes.
RequeueNone(q, ms) == q

RECURSIVE RequeueAll(_, _)
RequeueAll(q, ms) ==
    IF ms = <<>> THEN q ELSE Requeued(RequeueAll(q, Tail(ms)), Head(ms))

\* The Consume goroutine discards every body (a wrong decode check).
DiscardsAll(body) == TRUE

\* Consume, line 154: json.Unmarshal fails, the delivery is discarded.
Discards(body) == ~Decodable(body)

\* A rejection that requeues: the message goes to the back of the queue.
RejectedWithRequeue(q, m) == Append(q, m)

\* Consume, line 155: d.Nack(false, false), basic.nack without requeue: the
\* message m leaves the queue q for good.
Rejected(q, m) == q

\* The broker delivers the head of the queue to consumer w and the Consume
\* goroutine runs one iteration of "for d := range rawMsgs" on it: an
\* undecodable body is rejected without requeue (it leaves the queue), a
\* decodable one is held on the unbuffered channel "out" until the worker
\* takes it, and stays unacknowledged.
Deliver(w) ==
    /\ CanDeliver(w)
    /\ ready # <<>>
    /\ out[w] = None
    /\ ready' = IF Discards(Head(ready))
                  THEN Rejected(Tail(ready), Head(ready)) ELSE Tail(ready)
    /\ IF Discards(Head(ready))
         THEN UNCHANGED <<out, unacked>>
         ELSE /\ out' = [out EXCEPT ![w] =
                           [Order |-> Unmarshal(Head(ready)), raw |-> Head(ready)]]
              /\ unacked' = [unacked EXCEPT ![w] = Append(@, Head(ready))]
    /\ UNCHANGED <<conn, nForeign, apiVars, workerVars, storeVars, btx,
                 sysVars>>

\* The consumer's connection drops while the process lives on: the broker
\* requeues what the consumer had not terminated. A delivery already handed
\* to the process stays with it.
ConnDrop(w) ==
    /\ conn[w]
    /\ wpc[w] # "stopped"
    /\ conn' = [conn EXCEPT ![w] = FALSE]
    /\ ready' = RequeueAll(ready, unacked[w])
    /\ unacked' = [unacked EXCEPT ![w] = <<>>]
    /\ UNCHANGED <<out, nForeign, apiVars, workerVars, storeVars, btx, sysVars>>

\* The worker process dies at any point; its connection goes with it.
Crash(w) ==
    /\ wpc[w] # "stopped"
    /\ wpc' = [wpc EXCEPT ![w] = "stopped"]
    /\ cur' = [cur EXCEPT ![w] = None]
    /\ out' = [out EXCEPT ![w] = None]
    /\ conn' = [conn EXCEPT ![w] = FALSE]
    /\ ready' = RequeueAll(ready, unacked[w])
    /\ unacked' = [unacked EXCEPT ![w] = <<>>]
    /\ elapsed' = [elapsed EXCEPT ![w] = 0]
    /\ UNCHANGED <<nForeign, projFailed, apiVars, storeVars, btx, sysVars>>

\* A worker instance starts: NewConsumer, then Run calls Consume.
Restart(w) ==
    /\ wpc[w] = "stopped"
    /\ wpc' = [wpc EXCEPT ![w] = "recv"]
    /\ conn' = [conn EXCEPT ![w] = TRUE]
    /\ ctxDone' = [ctxDone EXCEPT ![w] = FALSE]
    /\ UNCHANGED <<ready, unacked, out, nForeign, cur, elapsed, projFailed,
                   apiVars, storeVars, btx, mv, refreshed, refr, apc>>

\* =========================================================================
\* Persistence Worker (internal/worker/worker.go)
\* =========================================================================

\* Run, "case delivery, ok := <-deliveries" with ok: process(delivery) starts.
Recv(w) ==
    /\ wpc[w] = "recv"
    /\ out[w] # None
    /\ cur' = [cur EXCEPT ![w] = out[w]]
    /\ out' = [out EXCEPT ![w] = None]
    /\ wpc' = [wpc EXCEPT ![w] = "insert"]
    /\ elapsed' = [elapsed EXCEPT ![w] = 0]
    /\ UNCHANGED <<ready, unacked, conn, nForeign, projFailed, apiVars,
                   storeVars, btx, sysVars>>

\* Run, "case delivery, ok := <-deliveries" with !ok: rawMsgs was closed
\* with the channel, the goroutine closed "out", Run returns.
RecvClosed(w) ==
    /\ wpc[w] = "recv"
    /\ ~conn[w]
    /\ out[w] = None
    /\ wpc' = [wpc EXCEPT ![w] = "stopped"]
    /\ UNCHANGED <<cur, elapsed, projFailed, brokerVars, apiVars, storeVars, btx,
                 sysVars>>

\* A process with a retry limit: the first failed attempt of an item requeues
\* it, a later one rejects it without requeue (it is dropped or dead-lettered).
NackDeadLetters(w) ==
    IF conn[w] /\ InSeq(unacked[w], cur[w].raw)
      THEN /\ unacked' = [unacked EXCEPT ![w] = RemoveOne(@, cur[w].raw)]
           /\ ready' = IF cur[w].Order.ID \in projFailed
                         THEN NotRequeued(ready, cur[w].raw)
                         ELSE Requeued(ready, cur[w].raw)
      ELSE UNCHANGED <<ready, unacked>>

\* A process that acknowledges the delivery where it should requeue it.
NackAcknowledges(w) ==
    /\ unacked' = [unacked EXCEPT ![w] = RemoveOne(@, cur[w].raw)]
    /\ ready' = ready

\* The queue after d.Nack(): basic.nack with requeue on an open channel; on
\* a closed one the call fails (the error is dropped) and the broker has
\* requeued the message already.
Nack(w) ==
    IF conn[w] /\ InSeq(unacked[w], cur[w].raw)
      THEN /\ unacked' = [unacked EXCEPT ![w] = RemoveOne(@, cur[w].raw)]
           /\ ready' = Requeued(ready, cur[w].raw)
      ELSE UNCHANGED <<ready, unacked>>

\* A process whose writes run under Run's context: the shutdown signal
\* cancels them.
ProcessCtxFromRun(w) == ctxDone[w]

\* process, line 62: the writes run under context.Background() with
\* perMessageTimeout, so the shutdown signal never cancels them (a timeout
\* is one of the ways a write fails).
ProcessCtxCancelled(w) == FALSE

\* The outcome of a write of process: an error once its context is
\* cancelled.
WriteOutcome(w, res) == IF ProcessCtxCancelled(w) THEN "err" ELSE res

\* What is left of the attempt's context (line 62: perMessageTimeout from
\* the start of process).
AttemptLeft(w) == perMessageTimeout - elapsed[w]

\* The deadline of each write, as seconds from its start:
\* InsertOrderIdempotent derives its writeTimeout context from the attempt's,
\* IndexOrder runs under the attempt's context itself.
InsertDeadline(w) == WithTimeout(AttemptLeft(w), writeTimeout)

\* A process that gives the projection write a deadline of its own.
IndexDeadlineOwn(w) == perMessageTimeout

IndexDeadline(w) == AttemptLeft(w)

\* What a write that needs dur seconds and would answer res returns under a
\* deadline: past the deadline, the context's error.
Within(deadline, dur, res) == IF dur > deadline THEN "err" ELSE res

\* process, step 1, the statement needing dur seconds:
\* InsertOrderIdempotent; on error Nack and return.
InsertStep(w, dur, res) ==
    /\ wpc[w] = "insert"
    /\ LET r == InsertOrderIdempotent(orders, cur[w].Order,
                   WriteOutcome(w, Within(InsertDeadline(w), dur, res)))
       IN  /\ orders' = r.rows
           /\ IF ~r.err
                THEN /\ wpc' = [wpc EXCEPT ![w] = "index"]
                     /\ elapsed' = [elapsed EXCEPT ![w] = @ + dur]
                     /\ UNCHANGED <<cur, ready, unacked>>
                ELSE /\ Nack(w)
                     /\ wpc' = [wpc EXCEPT ![w] = "recv"]
                     /\ cur' = [cur EXCEPT ![w] = None]
                     /\ elapsed' = [elapsed EXCEPT ![w] = 0]
    /\ UNCHANGED <<es, conn, out, nForeign, projFailed, apiVars, btx, sysVars>>

\* A process that goes on to the projection write whatever the primary
\* write returned.
InsertErrorIgnored(w, res) ==
    /\ wpc[w] = "insert"
    /\ orders' = InsertOrderIdempotent(orders, cur[w].Order, res).rows
    /\ wpc' = [wpc EXCEPT ![w] = "index"]
    /\ UNCHANGED <<cur, elapsed, ready, unacked, es, conn, out, nForeign,
                   projFailed, apiVars, btx, sysVars>>

\* process, step 1 with the time it takes left out.
Insert(w, res) == InsertStep(w, 0, res)

\* process, step 2, the request needing dur seconds: IndexOrder; on error
\* Nack and return.
IndexStep(w, dur, res) ==
    /\ wpc[w] = "index"
    /\ LET r == IndexOrder(es, cur[w].Order,
                   WriteOutcome(w, Within(IndexDeadline(w), dur, res)))
       IN  /\ es' = r.docs
           /\ IF ~r.err
                THEN /\ wpc' = [wpc EXCEPT ![w] = "ack"]
                     /\ elapsed' = [elapsed EXCEPT ![w] = @ + dur]
                     /\ UNCHANGED <<cur, ready, unacked, projFailed>>
                ELSE /\ Nack(w)
                     /\ wpc' = [wpc EXCEPT ![w] = "recv"]
                     /\ cur' = [cur EXCEPT ![w] = None]
                     /\ elapsed' = [elapsed EXCEPT ![w] = 0]
                     /\ projFailed' = projFailed \cup {cur[w].Order.ID}
    /\ UNCHANGED <<orders, conn, out, nForeign, apiVars, btx, sysVars>>

\* process, step 2 with the time it takes left out.
Index(w, res) == IndexStep(w, 0, res)

\* Seconds a write may need.
WriteDurations ==
    {1, writeTimeout, writeTimeout + 1, perMessageTimeout - 1,
     perMessageTimeout, perMessageTimeout + 1}

\* A process that returns after both writes without any termination call.
AckForgotten(w) ==
    /\ wpc[w] = "ack"
    /\ wpc' = [wpc EXCEPT ![w] = "recv"]
    /\ cur' = [cur EXCEPT ![w] = None]
    /\ elapsed' = [elapsed EXCEPT ![w] = 0]
    /\ UNCHANGED <<ready, unacked, conn, out, nForeign, projFailed, apiVars,
                   storeVars, btx, sysVars>>

\* process, step 3: d.Ack(); it removes the message for good on an open
\* channel and fails (logged) on a closed one.
Ack(w) ==
    /\ wpc[w] = "ack"
    /\ unacked' = [unacked EXCEPT ![w] =
                     IF conn[w] THEN RemoveOne(@, cur[w].raw) ELSE @]
    /\ wpc' = [wpc EXCEPT ![w] = "recv"]
    /\ cur' = [cur EXCEPT ![w] = None]
    /\ elapsed' = [elapsed EXCEPT ![w] = 0]
    /\ UNCHANGED <<ready, conn, out, nForeign, projFailed, apiVars,
                   storeVars, btx, sysVars>>

\* ---------------------------------------------------- worker shutdown
\* SIGINT/SIGTERM reaches the worker process: signal.NotifyContext cancels
\* the context handed to Run.
Signal(w) ==
    /\ wpc[w] \notin {"stopped", "dbclose"}
    /\ ~ctxDone[w]
    /\ ctxDone' = [ctxDone EXCEPT ![w] = TRUE]
    /\ UNCHANGED <<apiVars, brokerVars, workerVars, storeVars, btx, mv,
                   refreshed, refr, apc>>

\* Run, "case <-ctx.Done()": Run returns nil. The select is reached only
\* between two calls of process; when a delivery is ready as well, the
\* select takes either case (Recv stays enabled).
RecvDone(w) ==
    /\ wpc[w] = "recv"
    /\ ctxDone[w]
    /\ wpc' = [wpc EXCEPT ![w] = "returned"]
    /\ UNCHANGED <<cur, elapsed, projFailed, brokerVars, apiVars, storeVars, btx,
                   sysVars>>

\* cmd/worker main after Run returned: consumer.Close(). The broker requeues
\* what the consumer held unacknowledged, a delivery waiting on "out"
\* included.
ConsumerClose(w) ==
    /\ wpc[w] = "returned"
    /\ wpc' = [wpc EXCEPT ![w] = "dbclose"]
    /\ conn' = [conn EXCEPT ![w] = FALSE]
    /\ ready' = RequeueAll(ready, unacked[w])
    /\ unacked' = [unacked EXCEPT ![w] = <<>>]
    /\ out' = [out EXCEPT ![w] = None]
    /\ UNCHANGED <<nForeign, cur, elapsed, projFailed, apiVars, storeVars, btx,
                   sysVars>>

\* cmd/worker main: db.Conn.Close(), then the process exits.
DbClose(w) ==
    /\ wpc[w] = "dbclose"
    /\ wpc' = [wpc EXCEPT ![w] = "stopped"]
    /\ UNCHANGED <<cur, elapsed, projFailed, brokerVars, apiVars, storeVars, btx,
                   sysVars>>

\* =========================================================================
\* Bulk write: CreateBulkOrder / ProcessBulkOrder (handlers.go, db.go)
\* =========================================================================
\* btx is the one bulk request in flight: n counts the requests so far, pc
\* is the position in ProcessBulkOrder, pending the rows written inside the
\* open transaction (invisible to every other transaction until commit),
\* status the HTTP status answered (0 while in flight) and cause the step
\* that made ProcessBulkOrder return an error.

\* The id the table's default gives the k-th row of the n-th bulk request.
GenId(n, k) == 0 - (2 * (n - 1) + k)

BulkRow(n, k, item, amount, now) ==
    [id |-> GenId(n, k), product_name |-> item, amount |-> amount,
     created_at |-> now]

\* db.Conn.ExecContext in place of tx.ExecContext: the row is committed on
\* its own, outside the transaction.
ExecOutsideTx(tbl, pend, row) ==
    [committed |-> Append(tbl, row), pending |-> pend]

\* tx.ExecContext(INSERT ...): the row joins the transaction's pending rows.
TxExec(tbl, pend, row) == [committed |-> tbl, pending |-> Append(pend, row)]

\* The deferred tx.Rollback() on an error return: pending rows are dropped,
\* CreateBulkOrder answers 500.
BulkFail(cause) ==
    btx' = [btx EXCEPT !.pc = "idle", !.pending = <<>>, !.status = 500,
                       !.cause = cause]

\* CreateBulkOrder decodes {item_1, item_2}; ProcessBulkOrder: BeginTx.
BulkBegin(item1, item2, now, res) ==
    /\ apc = "serving"
    /\ btx.pc = "idle"
    /\ btx.n < MaxBulk
    /\ btx' = [n |-> btx.n + 1, pc |-> IF res = "ok" THEN "step1" ELSE "idle",
               item1 |-> item1, item2 |-> item2, now |-> now,
               pending |-> <<>>, status |-> IF res = "ok" THEN 0 ELSE 500,
               cause |-> IF res = "ok" THEN "" ELSE "begin"]
    /\ UNCHANGED <<apiVars, brokerVars, workerVars, storeVars, sysVars>>

\* Step 1: INSERT item1, 100.00 inside the transaction.
BulkStep1(res) ==
    /\ btx.pc = "step1"
    /\ IF res = "ok"
         THEN LET r == TxExec(orders, btx.pending,
                              BulkRow(btx.n, 1, btx.item1, 10000, btx.now))
              IN  /\ orders' = r.committed
                  /\ btx' = [btx EXCEPT !.pc = "step2", !.pending = r.pending]
         ELSE /\ BulkFail("step1")
              /\ UNCHANGED orders
    /\ UNCHANGED <<apiVars, brokerVars, workerVars, es, sysVars>>

\* Step 2: item2 = "ERROR" returns the simulated failure; otherwise
\* INSERT item2, 50.00 inside the transaction.
BulkStep2(res) ==
    /\ btx.pc = "step2"
    /\ IF btx.item2 = "ERROR"
         THEN /\ BulkFail("simulated")
              /\ UNCHANGED orders
         ELSE IF res = "ok"
           THEN LET r == TxExec(orders, btx.pending,
                                BulkRow(btx.n, 2, btx.item2, 5000, btx.now))
                IN  /\ orders' = r.committed
                    /\ btx' = [btx EXCEPT !.pc = "commit", !.pending = r.pending]
           ELSE /\ BulkFail("step2")
                /\ UNCHANGED orders
    /\ UNCHANGED <<apiVars, brokerVars, workerVars, es, sysVars>>

\* tx.Commit(): the pending rows become visible together and the handler
\* answers 201. A failed commit (the write timeout among its causes) answers
\* 500; the rows are rolled back ("err"), unless the store had committed and
\* only its reply was lost ("lost").
BulkCommit(res) ==
    /\ btx.pc = "commit"
    /\ IF res = "ok"
         THEN /\ orders' = orders \o btx.pending
              /\ btx' = [btx EXCEPT !.pc = "idle", !.pending = <<>>,
                                    !.status = 201]
         ELSE /\ BulkFail("commit")
              /\ orders' = IF res = "lost" THEN orders \o btx.pending
                                           ELSE orders
    /\ UNCHANGED <<apiVars, brokerVars, workerVars, es, sysVars>>

\* Committed rows of the n-th bulk request.
BulkRows(n) ==
    {k \in 1..Len(orders) : orders[k].id \in {GenId(n, 1), GenId(n, 2)}}

\* =========================================================================
\* Aggregate view daily_sales_mv (internal/database, docs/architecture.md)
\* =========================================================================
RECURSIVE SumAmount(_, _)
SumAmount(tbl, K) ==
    IF K = {} THEN 0
    ELSE LET k == CHOOSE x \in K : TRUE
         IN  tbl[k].amount + SumAmount(tbl, K \ {k})

\* An aggregate that keeps one order's amount a day instead of the sum.
GroupByDateLastAmount(tbl) ==
    {[sale_date |-> d,
      total_revenue |-> tbl[CHOOSE k \in 1..Len(tbl) : tbl[k].created_at = d].amount] :
        d \in {tbl[k].created_at : k \in 1..Len(tbl)}}

\* The view's query: SUM(amount) GROUP BY date, one row a date.
GroupByDate(tbl) ==
    {[sale_date |-> d,
      total_revenue |-> SumAmount(tbl, {k \in 1..Len(tbl) : tbl[k].created_at = d})] :
        d \in {tbl[k].created_at : k \in 1..Len(tbl)}}

\* ORDER BY sale_date DESC LIMIT n over the rows of the view.
RECURSIVE TopDesc(_, _)
TopDesc(view, n) ==
    IF view = {} \/ n = 0 THEN <<>>
    ELSE LET m == CHOOSE r \in view : \A q \in view : q.sale_date <= r.sale_date
         IN  <<m>> \o TopDesc(view \ {m}, n - 1)

\* A GetSales whose query has no LIMIT.
GetSalesNoLimit(res) ==
    IF res = "ok" THEN [rows |-> TopDesc(mv, Cardinality(mv)), err |-> FALSE]
    ELSE [rows |-> <<>>, err |-> TRUE]

\* db.GetSales: the rows of daily_sales_mv, newest first, at most 30.
GetSales(res) ==
    IF res = "ok" THEN [rows |-> TopDesc(mv, salesLimit), err |-> FALSE]
    ELSE [rows |-> <<>>, err |-> TRUE]

\* GetSalesDashboard: 500 when GetSales fails, else 200 with its rows.
GetSalesDashboard(res) ==
    LET r == GetSales(res)
    IN  IF r.err THEN [status |-> 500, body |-> <<>>]
        ELSE [status |-> 200, body |-> r.rows]

\* A refresh starts: the cron job fires, or POST /api/admin/refresh arrives.
RefreshStart(t) ==
    /\ refr[t] = "idle"
    /\ IF t = "manual" THEN apc = "serving"
                       ELSE apc \in {"serving", "draining", "cronstop"}
    /\ refr' = [refr EXCEPT ![t] = "running"]
    /\ UNCHANGED <<apiVars, brokerVars, workerVars, storeVars, btx, mv,
                   refreshed, apc, ctxDone>>

\* A refresh that writes the new rows into the view beside the old ones.
RefreshedViewInPlace(view, tbl) == view \cup GroupByDate(tbl)

\* What REFRESH MATERIALIZED VIEW CONCURRENTLY commits: the grouping of the
\* table replaces the whole content of the view in one transaction.
RefreshedView(view, tbl) == GroupByDate(tbl)

\* db.RefreshMaterializedView returns: REFRESH MATERIALIZED VIEW CONCURRENTLY
\* swapped in the grouping of the table (res = "ok"), or failed and left the
\* view as it was.
RefreshFinish(t, res) ==
    /\ refr[t] = "running"
    /\ refr' = [refr EXCEPT ![t] = "idle"]
    /\ IF res = "ok"
         THEN mv' = RefreshedView(mv, orders) /\ refreshed' = orders
         ELSE UNCHANGED <<mv, refreshed>>
    /\ UNCHANGED <<apiVars, brokerVars, workerVars, storeVars, btx, apc,
                   ctxDone>>

\* ------------------------------------------------------ refresh deadlines
\* Seconds: the deadline the cron job puts on its context.
cronTimeout == 120

\* The context each trigger hands to db.RefreshMaterializedView: the cron
\* job's context.WithTimeout(context.Background(), 2*time.Minute), the
\* handler's r.Context().
RefreshCtx(t) ==
    IF t = "cron" THEN WithTimeout(NoDeadline, cronTimeout) ELSE NoDeadline

\* The deadline in effect for the REFRESH statement: RefreshMaterializedView
\* derives its refreshTimeout context from the caller's.
RefreshDeadline(t) == WithTimeout(RefreshCtx(t), refreshTimeout)

\* Seconds a REFRESH statement may need.
Durations == {1, cronTimeout + 1, refreshTimeout, refreshTimeout + 1}

\* A RefreshMaterializedView whose statement runs on past its deadline and
\* commits.
RefreshFinishNoDeadline(t, dur, res) == RefreshFinish(t, res)

\* db.RefreshMaterializedView returns for a statement that needs dur
\* seconds: past the deadline in effect the statement is cancelled and the
\* call returns the context's error.
RefreshFinishAfter(t, dur, res) ==
    RefreshFinish(t, IF dur > RefreshDeadline(t) THEN "err" ELSE res)

\* Orders stored before the first request: one a day, on the n days up to
\* day 1, under ids of their own.
History(n) ==
    [k \in 1..n |->
        [id |-> 0 - (100 + k), product_name |-> "Laptop",
         amount |-> 100 + k, created_at |-> 2 - k]]

HistoryLens == {0, 1, salesLimit - 1, salesLimit, MaxHistory}

\* =========================================================================
\* Shutdown of the API process (cmd/api main)
\* =========================================================================
\* apc is main's position: "serving", "draining" (inside srv.Shutdown),
\* "cronstop" (inside cronScheduler.Stop), then "pubclose", "redisclose",
\* "dbclose" (the Close call about to be made) and "exited".

\* HTTP requests whose handler has not returned.
HttpInFlight ==
    \/ \E i \in Ids : creq[i].pc \in {"publish", "respond"}
    \/ btx.pc # "idle"
    \/ refr["manual"] = "running"

\* SIGINT/SIGTERM arrives on quit: main calls srv.Shutdown, the listener
\* closes and no new request is accepted.
ApiSignal ==
    /\ apc = "serving"
    /\ apc' = "draining"
    /\ UNCHANGED <<apiVars, brokerVars, workerVars, storeVars, btx, mv,
                   refreshed, refr, ctxDone>>

\* srv.Shutdown returns nil: every connection has gone idle.
ShutdownReturn ==
    /\ apc = "draining"
    /\ ~HttpInFlight
    /\ apc' = "cronstop"
    /\ UNCHANGED <<apiVars, brokerVars, workerVars, storeVars, btx, mv,
                   refreshed, refr, ctxDone>>

\* srv.Shutdown returns the deadline's error, which main logs before it goes
\* on: a request is still running after shutdownTimeout. The admin refresh
\* is the one handler that is allowed to run that long; the others are taken
\* to have answered by then.
ShutdownTimeout ==
    /\ apc = "draining"
    /\ refreshTimeout > shutdownTimeout
    /\ refr["manual"] = "running"
    /\ \A i \in Ids : creq[i].pc \notin {"publish", "respond"}
    /\ btx.pc = "idle"
    /\ apc' = "cronstop"
    /\ UNCHANGED <<apiVars, brokerVars, workerVars, storeVars, btx, mv,
                   refreshed, refr, ctxDone>>

\* <-cronScheduler.Stop().Done(): no further job starts and main waits for
\* the running one.
CronStop ==
    /\ apc = "cronstop"
    /\ refr["cron"] # "running"
    /\ apc' = "pubclose"
    /\ UNCHANGED <<apiVars, brokerVars, workerVars, storeVars, btx, mv,
                   refreshed, refr, ctxDone>>

PublisherClose ==
    /\ apc = "pubclose"
    /\ apc' = "redisclose"
    /\ UNCHANGED <<apiVars, brokerVars, workerVars, storeVars, btx, mv,
                   refreshed, refr, ctxDone>>

RedisClose ==
    /\ apc = "redisclose"
    /\ apc' = "dbclose"
    /\ UNCHANGED <<apiVars, brokerVars, workerVars, storeVars, btx, mv,
                   refreshed, refr, ctxDone>>

\* db.Conn.Close(): sql.DB.Close waits for the queries that have started;
\* then main returns.
ApiDbClose ==
    /\ apc = "dbclose"
    /\ \A t \in Triggers : refr[t] # "running"
    /\ apc' = "exited"
    /\ UNCHANGED <<apiVars, brokerVars, workerVars, storeVars, btx, mv,
                   refreshed, refr, ctxDone>>

\* =========================================================================
\* Replays of the two persistence operations on their own
\* =========================================================================
\* Orders a replay may carry: every id with every payload and timestamp.
TestOrders ==
    {[ID |-> i, ProductName |-> r.payload.product_name,
      Amount |-> r.payload.amount, CreatedAt |-> d] :
        i \in Ids, r \in Requests, d \in Days}

ApplyInsert(o) ==
    /\ orders' = InsertOrderIdempotent(orders, o, "ok").rows
    /\ UNCHANGED <<es, apiVars, brokerVars, workerVars, btx, sysVars>>

ApplyIndex(o) ==
    /\ es' = IndexOrder(es, o, "ok").docs
    /\ UNCHANGED <<orders, apiVars, brokerVars, workerVars, btx, sysVars>>

\* =========================================================================
\* Specification
\* =========================================================================
\* CreateOrder requests; C: what the cache put may answer.
CreateStep(C) ==
    \/ \E r \in Requests, cres \in C : CreateBegin(r.payload, r.now, cres)
    \/ \E i \in Ids, res \in Outcomes : CreatePublish(i, res)
    \/ \E i \in Ids : CreateRespond(i)

\* Delivery and processing by the instances W; O: what the two downstream
\* writes may answer.
WorkerStep(W, O) ==
    \/ \E w \in W : Deliver(w)
    \/ \E w \in W : Recv(w)
    \/ \E w \in W, res \in O : Insert(w, res)
    \/ \E w \in W, res \in O : Index(w, res)
    \/ \E w \in W : Ack(w)

\* A consumer loses its connection, its Run returns, an instance starts.
TakeoverStep(W) ==
    \/ \E w \in W : ConnDrop(w)
    \/ \E w \in W : RecvClosed(w)
    \/ \E w \in W : Restart(w)

FaultStep(W) ==
    \/ ForeignPublish
    \/ \E w \in W : Crash(w)
    \/ TakeoverStep(W)

ReadStep ==
    \/ \E i \in Ids : Expire(i)
    \/ \E i \in Ids, cres \in Outcomes, dres \in Outcomes, bres \in Outcomes :
          GetOrder(i, cres, dres, bres)

\* The write pipeline of one worker instance under every fault: acceptance,
\* queue, worker, stores; a crashed or disconnected instance is replaced by
\* a new one. The cache is written but never read by these steps, and is
\* taken to be reachable.
Next == CreateStep({"ok"}) \/ WorkerStep({"w1"}, Outcomes) \/ FaultStep({"w1"})

Spec == Init /\ [][Next]_vars

\* Two worker instances side by side: a message requeued by a dropped
\* connection is redelivered to the other instance while the first one is
\* still processing it.
ScaleNext ==
    \/ CreateStep({"ok"})
    \/ WorkerStep(Workers, Outcomes)
    \/ TakeoverStep(Workers)
    \/ \E w \in Workers : Crash(w)

ScaleSpec == Init /\ [][ScaleNext]_vars

\* The read path beside the write pipeline: reads and cache expiry
\* interleaved with acceptance and persistence, the cache and the store
\* lookup failing at will, the worker's writes succeeding.
ReadNext == CreateStep(Outcomes) \/ WorkerStep({"w1"}, {"ok"}) \/ ReadStep

ReadSpec == Init /\ [][ReadNext]_vars

\* Bulk requests, one after the other, each step failing at will.
BulkNext ==
    \/ \E item1 \in {"Laptop", "Phone"}, item2 \in {"Mouse", "ERROR"},
          now \in Days, res \in Outcomes :
          BulkBegin(item1, item2, now, res)
    \/ \E res \in Outcomes : BulkStep1(res)
    \/ \E res \in Outcomes : BulkStep2(res)
    \/ \E res \in Outcomes \cup {"lost"} : BulkCommit(res)

BulkSpec == Init /\ [][BulkNext]_vars

\* Any sequence of primary inserts and projection upserts, replays and
\* changed payloads included.
IdemNext ==
    \/ \E o \in TestOrders : ApplyInsert(o)
    \/ \E o \in TestOrders : ApplyIndex(o)

IdemSpec == Init /\ [][IdemNext]_vars

\* The pipeline with a worker that keeps running: no crash, no dropped
\* connection. The broker redelivers what is requeued, the worker takes what
\* is delivered, and a downstream write that is retried again and again
\* eventually succeeds.
LiveNext == CreateStep({"ok"}) \/ WorkerStep({"w1"}, Outcomes)

LiveSpec ==
    /\ Init
    /\ [][LiveNext]_vars
    /\ WF_vars(Deliver("w1"))
    /\ WF_vars(Recv("w1"))
    /\ WF_vars(Ack("w1"))
    /\ SF_vars(Insert("w1", "ok"))
    /\ SF_vars(Index("w1", "ok"))

\* Graceful shutdown of the worker: the signal arrives at any point, Run
\* returns, main closes the consumer and the database, and a new instance
\* starts; the two writes fail at will.
ShutdownStep(W) ==
    \/ \E w \in W : Signal(w)
    \/ \E w \in W : RecvDone(w)
    \/ \E w \in W : ConsumerClose(w)
    \/ \E w \in W : DbClose(w)
    \/ \E w \in W : Restart(w)

ShutdownNext ==
    \/ CreateStep({"ok"})
    \/ WorkerStep({"w1"}, Outcomes)
    \/ ShutdownStep({"w1"})

ShutdownSpec == Init /\ [][ShutdownNext]_vars

\* Shutdown of the API process while creates, bulk requests and refreshes
\* by both triggers come and go.
ApiShutdownNext ==
    \/ CreateStep({"ok"})
    \/ BulkBegin("Laptop", "Mouse", 1, "ok")
    \/ BulkStep1("ok")
    \/ BulkStep2("ok")
    \/ BulkCommit("ok")
    \/ \E t \in Triggers : RefreshStart(t)
    \/ \E t \in Triggers, res \in Outcomes : RefreshFinish(t, res)
    \/ ApiSignal
    \/ ShutdownReturn
    \/ ShutdownTimeout
    \/ CronStop
    \/ PublisherClose
    \/ RedisClose
    \/ ApiDbClose

ApiShutdownSpec == Init /\ [][ApiShutdownNext]_vars

\* Refreshes by both triggers, each taking its time, beside inserts.
RefreshNext ==
    \/ \E o \in TestOrders : ApplyInsert(o)
    \/ \E t \in Triggers : RefreshStart(t)
    \/ \E t \in Triggers, dur \in Durations, res \in Outcomes :
          RefreshFinishAfter(t, dur, res)

RefreshSpec == Init /\ [][RefreshNext]_vars

\* Everything that writes the orders table beside the refreshes: the
\* worker's idempotent insert of an order as it was created (ViewOrders) and
\* the bulk transaction (its second item may be the one that fails); each
\* refresh takes its time and fails at will.
ViewOrders ==
    {o \in TestOrders :
        \E r \in Requests : /\ o.ProductName = r.payload.product_name
                            /\ o.CreatedAt = r.now}

ViewNext ==
    \/ \E o \in ViewOrders : ApplyInsert(o)
    \/ \E item2 \in {"Mouse", "ERROR"} : BulkBegin("Laptop", item2, 1, "ok")
    \/ BulkStep1("ok")
    \/ BulkStep2("ok")
    \/ BulkCommit("ok")
    \/ \E t \in Triggers : RefreshStart(t)
    \/ \E t \in Triggers, dur \in Durations, res \in Outcomes :
          RefreshFinishAfter(t, dur, res)

ViewSpec == Init /\ [][ViewNext]_vars

\* The cache over time: creates, the worker, reads whose cache calls fail
\* at will, and the clock.
CacheNext ==
    \/ CreateStep({"ok"})
    \/ WorkerStep({"w1"}, {"ok"})
    \/ \E i \in Ids, cres \in Outcomes, bres \in Outcomes :
          GetOrder(i, cres, "ok", bres)
    \/ Tick

CacheSpec == Init /\ [][CacheNext]_vars

\* One worker whose writes take their time: each attempt runs against the
\* deadline of its context.
AttemptNext ==
    \/ CreateStep({"ok"})
    \/ Deliver("w1")
    \/ Recv("w1")
    \/ \E dur \in WriteDurations, res \in Outcomes : InsertStep("w1", dur, res)
    \/ \E dur \in WriteDurations, res \in Outcomes : IndexStep("w1", dur, res)
    \/ Ack("w1")

AttemptSpec == Init /\ [][AttemptNext]_vars

\* Deliveries that are never terminated: the worker crashes, loses its
\* connection or is shut down at any point, and a new instance takes over;
\* the writes themselves succeed.
RedeliveryNext ==
    \/ CreateStep({"ok"})
    \/ WorkerStep({"w1"}, {"ok"})
    \/ Crash("w1")
    \/ ConnDrop("w1")
    \/ RecvClosed("w1")
    \/ ShutdownStep({"w1"})

RedeliverySpec == Init /\ [][RedeliveryNext]_vars

\* A downstream store that stays broken: every attempt of process fails, at
\* the primary write or, when that one succeeds, at the projection write.
\* The worker keeps running and the broker keeps delivering.
RetryNext ==
    \/ CreateStep({"ok"})
    \/ Deliver("w1")
    \/ Recv("w1")
    \/ \E res \in Outcomes : Insert("w1", res)
    \/ Index("w1", "err")

RetrySpec ==
    /\ Init
    /\ [][RetryNext]_vars
    /\ WF_vars(Deliver("w1"))
    /\ WF_vars(Recv("w1"))
    /\ WF_vars(\E res \in Outcomes : Insert("w1", res))
    /\ WF_vars(Index("w1", "err"))

\* The API handlers that touch orders (CreateOrder, GetOrder,
\* CreateBulkOrder) beside one worker, every call succeeding but the bulk
\* request's forced failure.
ApiNext ==
    \/ CreateStep({"ok"})
    \/ WorkerStep({"w1"}, {"ok"})
    \/ \E i \in Ids : Expire(i)
    \/ \E i \in Ids : GetOrder(i, "ok", "ok", "ok")
    \/ \E item2 \in {"Mouse", "ERROR"} : BulkBegin("Laptop", item2, 1, "ok")
    \/ BulkStep1("ok")
    \/ BulkStep2("ok")
    \/ BulkCommit("ok")

ApiSpec == Init /\ [][ApiNext]_vars

\* The dashboard: idempotent inserts into a table that holds some history,
\* and refreshes by both triggers.
SalesInit == InitButOrders /\ \E n \in HistoryLens : orders = History(n)

SalesNext ==
    \/ \E o \in TestOrders : ApplyInsert(o)
    \/ \E t \in Triggers : RefreshStart(t)
    \/ \E t \in Triggers, res \in Outcomes : RefreshFinish(t, res)

SalesSpec == SalesInit /\ [][SalesNext]_vars

\* =========================================================================
\* Properties
\* =========================================================================
AcceptedIds == {i \in Ids : creq[i].pc = "accepted"}
Processing(w) == wpc[w] \in {"insert", "index", "ack"}

\* C1: in every reachable state the Record Store holds at most one row per
\* id and the Search Projection at most one document per id, however often
\* a work item is delivered (requeue after a failed step, failed ack, crash
\* before ack, redelivery to another worker instance). Checked under
\* ScaleSpec.
C1_AtMostOneRowAndDoc ==
    \A i \in Ids :
        /\ Cardinality(RowsOf(orders, i)) <= 1
        /\ Cardinality(DocsOf(es, i)) <= 1

\* Both instances have written the row and the document of the same id and
\* are about to acknowledge it.
C1_Witness ==
    \E i \in Ids :
        /\ \A w \in Workers : wpc[w] = "ack" /\ cur[w].Order.ID = i
        /\ Cardinality(RowsOf(orders, i)) = 1
        /\ Cardinality(DocsOf(es, i)) = 1

\* C2: no accepted write is lost. Every id answered 202 is held by the queue
\* (ready or unacknowledged) or has a row in the Record Store; a published
\* item leaves the queue only by the acknowledgment that follows its
\* primary write, never by a discard.
C2_AcceptedHeldOrStored == \A i \in AcceptedIds : InQueue(i) \/ HasRow(i)

C2_LeavesOnlyByAck ==
    \A i \in Ids :
        (InQueue(i) /\ ~InQueue(i)') =>
            \E w \in Workers : Ack(w) /\ cur[w].Order.ID = i /\ HasRow(i)

C2_NoLostWrite == [](C2_AcceptedHeldOrStored) /\ [][C2_LeavesOnlyByAck]_vars

\* An accepted item was acknowledged out of the queue with its row stored,
\* and the undecodable message was discarded.
C2_Witness ==
    /\ \E i \in AcceptedIds : ~InQueue(i) /\ HasRow(i)
    /\ nForeign = 1
    /\ ~InSeq(ready, Malformed)

\* C3: eventual persistence. Under LiveSpec (the worker keeps running, the
\* broker redelivers, a retried write eventually succeeds) every create that
\* was answered 202 leads to a state where its row and its document exist
\* and its work item is acknowledged out of the queue.
C3_EventuallyPersisted ==
    \A i \in Ids :
        (creq[i].pc = "accepted") ~> (HasRow(i) /\ HasDoc(i) /\ ~InQueue(i))

\* An accepted item is persisted and acknowledged after a failed attempt.
C3_Witness ==
    \E i \in AcceptedIds :
        i \in projFailed /\ HasRow(i) /\ HasDoc(i) /\ ~InQueue(i)

C5_ResponseBeforeRow ==
    \A i \in Ids : creq[i].pc \in {"publish", "respond"} => ~HasRow(i)

\* C6: after a create whose publish failed (answered 500) nothing of the
\* attempt persists: no work item, no row, no document, no cache entry.
C6_FailedCreateLeavesNothing ==
    \A i \in Ids :
        creq[i].pc = "failed" =>
            /\ ~InQueue(i)
            /\ ~HasRow(i)
            /\ ~HasDoc(i)
            /\ cache[i] = None

\* C7 as stated: a read for an id with no row is answered 404 (the store
\* being reachable); a read for an id with a row while the store is
\* unreachable is answered 500, never 404.
C7_NotFoundVsError_AsStated ==
    \A i \in Ids, c \in Outcomes, d \in Outcomes :
        LET r == GetOrderResponse(i, c, d)
        IN  /\ (~HasRow(i) /\ d = "ok") => r.status = 404
            /\ (HasRow(i) /\ d = "err") => r.status = 500
            /\ HasRow(i) => r.status # 404

\* C7 (amended): for a read the cache does not answer (entry absent or
\* expired, cache unreachable): an id with no row is answered 404 when the
\* store is reachable; an unreachable store is answered 500 whether the row
\* exists or not; and no read of an id that has a row is answered 404.
\* Checked under ReadSpec.
C7_NotFoundVsError ==
    \A i \in Ids, c \in Outcomes, d \in Outcomes :
        LET r == GetOrderResponse(i, c, d)
            miss == CacheGet(cache, i, c) = None
        IN  /\ (miss /\ ~HasRow(i) /\ d = "ok") => r.status = 404
            /\ (miss /\ d = "err") => r.status = 500
            /\ HasRow(i) => r.status # 404
            /\ r.status = 404 => (~HasRow(i) /\ d = "ok")

\* One id has a row and no cache entry and is read with the store down;
\* another has neither and is read with the store up.
C7_Witness ==
    /\ \E i \in Ids :
          /\ HasRow(i)
          /\ cache[i] = None
          /\ GetOrderResponse(i, "ok", "err").status = 500
    /\ \E j \in Ids :
          /\ ~HasRow(j)
          /\ cache[j] = None
          /\ GetOrderResponse(j, "ok", "ok").status = 404

\* C8: requeue safety. When the projection write fails after the primary
\* write succeeded the item is requeued, not acknowledged: the failing step
\* puts it back at the head of the ready queue and never takes it out of
\* the queue. Once such an item has been redelivered, processed and
\* acknowledged, exactly one row and exactly one document exist for its id.
\* Checked under ScaleSpec, redelivery to another instance included.
C8_FailedIndexRequeues ==
    \A w \in Workers, i \in Ids :
        (Index(w, "err") /\ cur[w].Order.ID = i) =>
            /\ HasRow(i)
            /\ InQueue(i) => InQueue(i)'
            /\ conn[w] => InQueue(i)' /\ ready' # <<>> /\ Head(ready') = cur[w].raw
            /\ i \in projFailed'

C8_OneRowOneDocAfterRetry ==
    \A i \in projFailed :
        /\ Cardinality(RowsOf(orders, i)) = 1
        /\ Cardinality(DocsOf(es, i)) <= 1
        /\ ~InQueue(i) => Cardinality(DocsOf(es, i)) = 1

C8_RequeueSafety ==
    [](C8_OneRowOneDocAfterRetry) /\ [][C8_FailedIndexRequeues]_vars

\* An item whose projection write had failed is acknowledged out of the
\* queue with one row and one document.
C8_Witness ==
    \E i \in projFailed :
        /\ ~InQueue(i)
        /\ Cardinality(RowsOf(orders, i)) = 1
        /\ Cardinality(DocsOf(es, i)) = 1

BulkDone == btx.n > 0 /\ btx.pc = "idle"

\* No transaction ever sees one row of a bulk request without the other.
BulkAllOrNothing ==
    \A n \in 1..MaxBulk : Cardinality(BulkRows(n)) \in {0, 2}

\* A failed second step commits nothing and is answered 500.
BulkSecondStepFails ==
    btx.cause \in {"simulated", "step2"} =>
        btx.status = 500 /\ BulkRows(btx.n) = {}

\* C9 as stated: a failed second step leaves zero rows and a 500; both
\* steps succeeding leaves exactly two rows committed; nobody observes only
\* the first row.
C9_BulkAtomic_AsStated ==
    /\ BulkAllOrNothing
    /\ BulkSecondStepFails
    /\ (BulkDone /\ btx.cause \in {"", "commit"}) =>
           Cardinality(BulkRows(btx.n)) = 2

\* C9 (amended): a failed second step (item_2 = ERROR, an insert error, the
\* write timeout) leaves zero rows and a 500; when both steps and the commit
\* succeed exactly two rows are committed and the answer is 201; when both
\* steps succeed and the commit fails the answer is 500 and either no row
\* or both rows are committed; no other transaction ever observes only the
\* first row. Checked under BulkSpec.
C9_BulkAtomic ==
    /\ BulkAllOrNothing
    /\ BulkSecondStepFails
    /\ (BulkDone /\ btx.cause = "") =>
           /\ btx.status = 201
           /\ Cardinality(BulkRows(btx.n)) = 2
           /\ {orders[k].product_name : k \in BulkRows(btx.n)} =
                  {btx.item1, btx.item2}
    /\ (BulkDone /\ btx.cause # "") => btx.status = 500
    /\ (BulkDone /\ btx.cause \notin {"", "commit"}) => BulkRows(btx.n) = {}
    /\ ~BulkDone => (btx.n > 0 => BulkRows(btx.n) = {})
    /\ btx.item2 = "ERROR" => btx.status # 201

\* The first bulk request was rolled back at its second step, the second
\* one committed its two rows.
C9_Witness ==
    /\ btx.n = 2
    /\ BulkRows(1) = {}
    /\ btx.status = 201
    /\ Cardinality(BulkRows(2)) = 2

\* C10: idempotence. InsertOrderIdempotent applied twice with the same order
\* leaves the table it leaves when applied once, with one row for the id
\* and no error on the second call; IndexOrder applied twice with the same
\* id leaves one document for the id, holding the payload of the later
\* call. Checked in every state of IdemSpec.
C10_Idempotent ==
    /\ \A o \in TestOrders :
          LET once == InsertOrderIdempotent(orders, o, "ok")
              twice == InsertOrderIdempotent(once.rows, o, "ok")
          IN  /\ ~once.err /\ ~twice.err
              /\ twice.rows = once.rows
              /\ Cardinality(RowsOf(twice.rows, o.ID)) = 1
    /\ \A o1 \in TestOrders, o2 \in TestOrders :
          o1.ID = o2.ID =>
              LET once == IndexOrder(es, o1, "ok")
                  twice == IndexOrder(once.docs, o2, "ok")
              IN  /\ ~once.err /\ ~twice.err
                  /\ DocsOf(twice.docs, o1.ID) =
                         {[_id |-> <<"order", o2.ID>>, _source |-> Marshal(o2)]}
                  /\ {d \in twice.docs : d._source.id # o1.ID} =
                         {d \in es : d._source.id # o1.ID}

\* Both operations were replayed for one id with a changed payload: the row
\* keeps the first payload, the document holds the later one.
C10_Witness ==
    \E i \in Ids :
        /\ Cardinality(RowsOf(orders, i)) = 1
        /\ Cardinality(DocsOf(es, i)) = 1
        /\ \E d \in DocsOf(es, i) :
              d._source.product_name # SelectOrder(orders, i).ProductName

\* C11: a cache put failure is non-fatal to CreateOrder. A create whose
\* cache put failed goes on to the publish; it is answered 500 only if the
\* publish failed too; when the publish succeeds its work item is enqueued
\* and the caller gets the accepted response with the assigned id. Checked
\* under ReadSpec.
C11_CachePutFailed ==
    \A i \in Ids :
        creq[i].cacheErr =>
            /\ creq[i].pc \in {"publish", "respond", "accepted", "failed"}
            /\ creq[i].pc = "failed" <=> creq[i].pubErr
            /\ creq[i].pc \in {"respond", "accepted"} =>
                  /\ InQueue(i) \/ HasRow(i)
                  /\ creq[i].order.ID = i
            /\ creq[i].pc = "respond" => ENABLED CreateRespond(i)

C11_CachePutFailedStep ==
    \A i \in Ids :
        (creq[i].cacheErr /\ creq'[i] # creq[i]) =>
            /\ creq[i].pc = "publish" =>
                  \/ /\ creq'[i].pc = "respond"
                     /\ InSeq(ready', BodyOf(i))
                  \/ /\ creq'[i].pc = "failed"
                     /\ creq'[i].pubErr
                     /\ ready' = ready
            /\ creq[i].pc = "respond" =>
                  creq'[i].pc = "accepted" /\ creq'[i].order.ID = i

C11_CachePutNonFatal ==
    [](C11_CachePutFailed) /\ [][C11_CachePutFailedStep]_vars

\* A create whose cache put failed was answered 202 and its item is queued.
C11_Witness ==
    \E i \in AcceptedIds :
        creq[i].cacheErr /\ cache[i] = None /\ InSeq(ready, BodyOf(i))

\* What the store lookup alone makes GetOrder answer for id.
StoreAnswer(id, dres) ==
    IF dres = "err" THEN [status |-> 500, xcache |-> "", order |-> None]
    ELSE IF ~HasRow(id) THEN [status |-> 404, xcache |-> "", order |-> None]
    ELSE [status |-> 200, xcache |-> "MISS", order |-> SelectOrder(orders, id)]

\* C12: a failed cache get in GetOrder (key absent or expired, cache
\* unreachable, undecodable entry) is treated like a miss: the answer is the
\* one the Record Store lookup alone gives (200 MISS with the row, 404, or
\* 500 when the store fails), and the cache error is not surfaced. Checked
\* under ReadSpec.
C12_CacheGetFailureIsMiss ==
    \A i \in Ids, d \in Outcomes :
        /\ GetOrderResponse(i, "err", d) = StoreAnswer(i, d)
        /\ cache[i] = None => GetOrderResponse(i, "ok", d) = StoreAnswer(i, d)
        /\ CacheGet([cache EXCEPT ![i] = Malformed], i, "ok") = None
        /\ (d = "ok" /\ HasRow(i)) => GetOrderResponse(i, "err", d).status = 200

\* The cache holds the entry and cannot be reached, the row exists: the read
\* is answered from the store.
C12_Witness ==
    \E i \in Ids :
        /\ cache[i] # None
        /\ HasRow(i)
        /\ GetOrderResponse(i, "err", "ok").xcache = "MISS"

\* C13: read path marking and back-fill. On a cache hit GetOrder answers
\* 200 marked HIT with the cached record, whatever the Record Store would
\* say, and writes nothing. On a miss with a successful store read it
\* answers 200 marked MISS with the row and puts that row into the cache;
\* when that put fails the cache stays as it was and the answer is the
\* same. Checked under ReadSpec.
C13_MarkingAndBackFill ==
    \A i \in Ids, c \in Outcomes, d \in Outcomes, b \in Outcomes :
        LET r == GetOrderResponse(i, c, d)
            hit == c = "ok" /\ cache[i] # None
        IN  /\ hit =>
                  /\ r = [status |-> 200, xcache |-> "HIT",
                          order |-> Unmarshal(cache[i])]
                  /\ BackFill(i, c, d, b) = cache
            /\ (~hit /\ d = "ok" /\ HasRow(i)) =>
                  /\ r = [status |-> 200, xcache |-> "MISS",
                          order |-> SelectOrder(orders, i)]
                  /\ BackFill(i, c, d, "ok") =
                         [cache EXCEPT ![i] = Marshal(SelectOrder(orders, i))]
                  /\ BackFill(i, c, d, "err") = cache
            /\ r.status # 200 => BackFill(i, c, d, b) = cache

\* The create's own cache put had failed; a read found the row stored and
\* put it into the cache: the next read is a hit.
C13_Witness ==
    \E i \in Ids :
        /\ creq[i].cacheErr
        /\ HasRow(i)
        /\ cache[i] = Marshal(SelectOrder(orders, i))
        /\ GetOrderResponse(i, "ok", "err").xcache = "HIT"

\* C14: every entry present in the cache belongs to an id that was accepted
\* (its create answered 202, its work item enqueued) or that has a row in the
\* Record Store; the cache never holds an entry for an id that was never
\* accepted. An entry of a create still on its way to its answer is not
\* counted against the claim.
C14_CacheEntriesAccepted ==
    \A i \in Ids :
        cache[i] # None =>
            \/ creq[i].pc \in {"publish", "respond"}
            \/ creq[i].pc = "accepted"
            \/ HasRow(i)

\* The messages the queue and the workers hold.
Held ==
    {ready[k] : k \in 1..Len(ready)}
        \cup UNION {{unacked[w][k] : k \in 1..Len(unacked[w])} : w \in Workers}
        \cup {out[w].raw : w \in {v \in Workers : out[v] # None}}
        \cup {cur[w].raw : w \in {v \in Workers : cur[v] # None}}

\* C15: identity. Every create is given an id no create was given before
\* and keeps it; the cache entry, the work item, the Record Store row and
\* the Search Projection document keyed by an id carry the name, amount and
\* timestamp of the one create that was given that id; nothing is keyed by
\* an id no create was given. Checked under ReadSpec.
C15_SameEntityEverywhere ==
    /\ \A i \in Assigned :
          LET o == creq[i].order
          IN  /\ o.ID = i
              /\ cache[i] # None => Unmarshal(cache[i]) = o
              /\ \A k \in RowsOf(orders, i) :
                    /\ orders[k].product_name = o.ProductName
                    /\ orders[k].amount = o.Amount
                    /\ orders[k].created_at = o.CreatedAt
              /\ HasRow(i) => SelectOrder(orders, i) = o
              /\ \A d \in DocsOf(es, i) :
                    d._id = <<"order", i>> /\ Unmarshal(d._source) = o
    /\ \A m \in Held :
          Decodable(m) => m.id \in Assigned /\ Unmarshal(m) = creq[m.id].order
    /\ \A w \in Workers :
          cur[w] # None => cur[w].Order = Unmarshal(cur[w].raw)
    /\ \A i \in Ids \ Assigned : cache[i] = None /\ ~HasRow(i) /\ ~HasDoc(i)

C15_IdNeverReassigned ==
    \A i \in Assigned : creq'[i].order = creq[i].order

C15_Identity ==
    [](C15_SameEntityEverywhere) /\ [][C15_IdNeverReassigned]_vars

\* Two creates with different attributes are both stored, indexed and
\* cached under their own ids.
C15_Witness ==
    \E i \in Assigned, j \in Assigned :
        /\ creq[i].order.ProductName # creq[j].order.ProductName
        /\ HasRow(i) /\ HasRow(j) /\ HasDoc(i) /\ HasDoc(j)
        /\ cache[i] # None /\ cache[j] # None

C16_WhoWritesRows ==
    orders' # orders =>
        \/ \E w \in Workers :
              /\ wpc[w] = "insert"
              /\ cur[w].Order.ID \in Ids
              /\ creq[cur[w].Order.ID].pc \in {"respond", "accepted"}
              /\ orders' = Append(orders, OrderRow(cur[w].Order))
              /\ creq' = creq /\ btx' = btx
        \/ /\ btx.pc = "commit"
           /\ btx'.status = 201
           /\ orders' = orders \o btx.pending
           /\ \A k \in 1..Len(btx.pending) : btx.pending[k].id \notin Ids
           /\ creq' = creq /\ cache' = cache

DatesOf(tbl) == {tbl[k].created_at : k \in 1..Len(tbl)}
RECURSIVE RevenueOn(_, _)
RevenueOn(tbl, d) ==
    IF tbl = <<>> THEN 0
    ELSE (IF Head(tbl).created_at = d THEN Head(tbl).amount ELSE 0)
             + RevenueOn(Tail(tbl), d)

\* C17: GetSales returns at most 30 aggregate rows ordered by date
\* descending (the newest dates of the view), and the revenue of each row is
\* the sum of the amounts of the records of that date as of the last
\* successful refresh. Checked under SalesSpec.
C17_SalesDashboard ==
    LET rows == GetSales("ok").rows
        shown == {rows[k].sale_date : k \in 1..Len(rows)}
    IN  /\ Len(rows) <= salesLimit
        /\ Len(rows) = IF Cardinality(DatesOf(refreshed)) < salesLimit
                         THEN Cardinality(DatesOf(refreshed)) ELSE salesLimit
        /\ \A k \in 1..Len(rows) :
              /\ k > 1 => rows[k].sale_date < rows[k - 1].sale_date
              /\ rows[k].sale_date \in DatesOf(refreshed)
              /\ rows[k].total_revenue = RevenueOn(refreshed, rows[k].sale_date)
        /\ \A d \in DatesOf(refreshed) \ shown : \A e \in shown : d < e
        /\ GetSalesDashboard("ok") = [status |-> 200, body |-> rows]
        /\ GetSalesDashboard("err").status = 500

\* The last refresh grouped more than 30 dates, one of them holding a
\* stored order beside the history's, and the table has moved on since.
C17_Witness ==
    /\ Cardinality(mv) > salesLimit
    /\ Len(GetSales("ok").rows) = salesLimit
    /\ \E i \in Ids : RowsOf(refreshed, i) # {}
    /\ refreshed # orders

\* --------------------------------------------------------------------
\* C18: worker shutdown never interrupts an item. Run observes the signal
\* only at its select, between two items (it returns from "recv" with no
\* item in hand); the signal does not cancel the writes of the item in
\* flight (a write that succeeds does so with the signal raised as well);
\* and an item leaves process only acknowledged with its row and its
\* document written, or requeued. Checked under ShutdownSpec.
C18_ObservedBetweenItems ==
    \A w \in Workers :
        (wpc[w] # "returned" /\ wpc'[w] = "returned")
            => wpc[w] = "recv" /\ cur[w] = None /\ ctxDone[w]

C18_WritesNotCancelled ==
    \A w \in Workers :
        /\ (ctxDone[w] /\ Insert(w, "ok")) => wpc'[w] = "index"
        /\ (ctxDone[w] /\ Index(w, "ok")) => wpc'[w] = "ack"

C18_ItemCompletes ==
    \A w \in Workers, i \in Ids :
        (Processing(w) /\ cur[w].Order.ID = i /\ wpc'[w] \notin {"insert", "index", "ack"})
            => /\ wpc'[w] = "recv"
               /\ \/ wpc[w] = "ack" /\ HasRow(i) /\ HasDoc(i) /\ ~InQueue(i)'
                  \/ wpc[w] # "ack" /\ InQueue(i)'

C18_ShutdownNeverInterrupts ==
    [][C18_ObservedBetweenItems /\ C18_WritesNotCancelled /\ C18_ItemCompletes]_vars

\* The signal is raised while an item is in flight, and both of its writes
\* have completed since.
C18_Witness ==
    \E w \in Workers :
        /\ ctxDone[w]
        /\ wpc[w] = "ack"
        /\ HasRow(cur[w].Order.ID)
        /\ HasDoc(cur[w].Order.ID)

\* C19: once the shutdown context is cancelled, Run starts no further
\* delivery: it leaves its select by the ctx.Done() case only. Checked under
\* ShutdownSpec; the select takes the delivery case when both are ready.
C19_NoFurtherDelivery ==
    [][\A w \in Workers :
          (ctxDone[w] /\ wpc[w] = "recv") => wpc'[w] # "insert"]_vars

\* --------------------------------------------------------------------
\* C20: API shutdown ordering. Once main closes the queue, cache and
\* database connections no HTTP request is in flight any more, and a
\* scheduled refresh that was running has finished before the database
\* connection is closed (new requests are refused from the signal on: the
\* guards of the handlers). Checked under ApiShutdownSpec; srv.Shutdown
\* gives up after shutdownTimeout.
C20_InFlightFinishBeforeClose ==
    /\ apc \in {"redisclose", "dbclose", "exited"} => ~HttpInFlight
    /\ apc \in {"pubclose", "redisclose", "dbclose", "exited"}
          => refr["cron"] # "running"

\* --------------------------------------------------------------------
\* C21: for both triggers the deadline in effect for a refresh is the
\* 5-minute one: a refresh whose statement needs no more than refreshTimeout
\* and meets no other error completes and swaps the view in, whichever
\* trigger started it. Checked under RefreshSpec; the cron job's own
\* context ends after cronTimeout.
C21_FiveMinuteDeadline ==
    [][\A t \in Triggers, dur \in Durations :
          (dur <= refreshTimeout /\ RefreshFinishAfter(t, dur, "ok"))
              => (mv' = GroupByDate(orders) /\ RefreshDeadline(t) = refreshTimeout)]_vars

\* --------------------------------------------------------------------
IsPrefix(a, b) == Len(a) <= Len(b) /\ SubSeq(b, 1, Len(a)) = a

\* C22: a refresh never blocks or corrupts reads of the view. In every
\* reachable state, refreshes running or not, the view is the complete
\* grouping of the table as it was when the last successful refresh
\* committed (one row a date, never a mix of two versions), and GetSales
\* answers from it without error. Checked under SalesSpec, where the
\* scheduled and the manual refresh overlap.
C22_RefreshNeverCorrupts ==
    /\ mv = GroupByDate(refreshed)
    /\ IsPrefix(refreshed, orders)
    /\ \A r, q \in mv : r.sale_date = q.sale_date => r = q
    /\ GetSales("ok") = [rows |-> TopDesc(GroupByDate(refreshed), salesLimit),
                         err |-> FALSE]

\* Both triggers are refreshing while the view holds an earlier refresh's
\* rows and the table has grown since.
C22_Witness ==
    /\ \A t \in Triggers : refr[t] = "running"
    /\ mv # {}
    /\ refreshed # orders
    /\ \E i \in Ids : RowsOf(refreshed, i) # {}

\* --------------------------------------------------------------------
\* C23: cache lifetime. An entry is present exactly while its key has
\* lifetime left, never more than orderTTL; every successful put (the
\* create's or a back-fill's) gives the key orderTTL from then on, whatever
\* it had left; the clock takes the lifetime down and the entry is gone
\* once it is over; cache GetOrder returns the record while the entry is
\* present and the not-found signal (None) otherwise. Checked under
\* CacheSpec.
C23_PresentWhileUnexpired ==
    \A i \in Ids :
        /\ cache[i] # None <=> ttl[i] \in 1..orderTTL
        /\ cache[i] = None <=> ttl[i] = 0
        /\ cache[i] # None => CacheGet(cache, i, "ok") = Unmarshal(cache[i])
        /\ cache[i] = None => CacheGet(cache, i, "ok") = None

C23_PutRestarts ==
    \A i \in Ids :
        /\ (creq[i].pc = "none" /\ creq'[i].pc = "publish" /\ ~creq'[i].cacheErr)
              => ttl'[i] = orderTTL /\ cache'[i] = Marshal(creq'[i].order)
        /\ (\E cres \in Outcomes : GetOrder(i, cres, "ok", "ok")
                /\ GetOrderResponse(i, cres, "ok").xcache = "MISS")
              => ttl'[i] = orderTTL /\ cache'[i] # None
        /\ ttl'[i] > ttl[i] => ttl'[i] = orderTTL

C23_ClockExpires ==
    Tick => \A i \in Ids :
        /\ ttl[i] > HoursPerTick => ttl'[i] = ttl[i] - HoursPerTick /\ cache'[i] = cache[i]
        /\ ttl[i] <= HoursPerTick => ttl'[i] = 0 /\ cache'[i] = None

C23_CacheLifetime ==
    [][C23_PresentWhileUnexpired /\ C23_PresentWhileUnexpired'
        /\ C23_PutRestarts /\ C23_ClockExpires]_vars

\* One entry has lived part of its lifetime, and another, written by its
\* create, has expired: a read of it is a miss.
C23_Witness ==
    \E i, j \in Ids :
        /\ cache[i] # None /\ ttl[i] \in 1..(orderTTL - 1)
        /\ creq[j].pc = "accepted" /\ ~creq[j].cacheErr
        /\ cache[j] = None /\ CacheGet(cache, j, "ok") = None

\* --------------------------------------------------------------------
\* C24: the projection is never ahead of the primary. In every reachable
\* state every document of the Search Projection has a Record Store row of
\* its id, and a worker that is at the projection write or past it has the
\* row of its item stored. Checked under Spec (failed writes, crashes,
\* connection loss, redelivery).
C24_ProjectionSubsetOfPrimary ==
    /\ \A d \in es : RowsOf(orders, d._source.id) # {}
    /\ \A w \in Workers :
          wpc[w] \in {"index", "ack"} => HasRow(cur[w].Order.ID)

\* One order is in both stores, and another has its row while its
\* projection write has failed and its document is missing.
C24_Witness ==
    \E i, j \in Ids :
        /\ HasRow(i) /\ HasDoc(i)
        /\ HasRow(j) /\ ~HasDoc(j) /\ j \in projFailed

\* --------------------------------------------------------------------
\* C25: a work item is acknowledged only in a state where the row and the
\* document of its id both exist, and an attempt in which the primary or
\* the projection write fails ends without acknowledging: the worker is
\* back at its select, the item is still held by the queue, and when the
\* consumer's channel is open the item is back at the head of the ready
\* messages. Checked under Spec.
C25_AckOnlyAfterBothWrites ==
    \A w \in Workers, i \in Ids :
        (Ack(w) /\ cur[w].Order.ID = i) =>
            /\ HasRow(i) /\ HasDoc(i)
            /\ Cardinality(RowsOf(orders, i)') = 1
            /\ Cardinality(DocsOf(es, i)') = 1

C25_FailedWriteRequeues ==
    \A w \in Workers, i \in Ids :
        ((Insert(w, "err") \/ Index(w, "err")) /\ cur[w].Order.ID = i) =>
            /\ wpc'[w] = "recv"
            /\ InQueue(i) => InQueue(i)'
            /\ (conn[w] /\ InSeq(unacked[w], cur[w].raw)) =>
                  /\ ready' = <<cur[w].raw>> \o ready
                  /\ ~InSeq(unacked'[w], cur[w].raw)

C25_AckAfterBothElseRequeue ==
    [][C25_AckOnlyAfterBothWrites /\ C25_FailedWriteRequeues]_vars

\* One item is acknowledged out of the queue with row and document, and
\* another, whose projection write has failed, is back in the ready
\* messages with the worker at its select.
C25_Witness ==
    \E i, j \in Ids :
        /\ i \in Assigned /\ ~InQueue(i) /\ HasRow(i) /\ HasDoc(i)
        /\ j \in projFailed /\ InSeq(ready, BodyOf(j)) /\ ~HasDoc(j)
        /\ wpc["w1"] = "recv" /\ out["w1"] = None

\* --------------------------------------------------------------------
\* C26: one worker instance processes one item at a time, in delivery
\* order. At most prefetchCount = 1 delivery is unacknowledged at a consumer;
\* while the worker processes an item no other delivery is held for it, and
\* on an open channel the one unacknowledged delivery is the item in hand;
\* the worker takes an item only from its select, with no item in hand, and
\* it is the one delivery the Consume goroutine holds, the last item having
\* left the consumer's unacknowledged deliveries (acknowledged or requeued).
\* Checked under Spec.
C26_OneUnacknowledged ==
    \A w \in Workers :
        /\ Len(unacked[w]) <= prefetchCount
        /\ Processing(w) => out[w] = None
        /\ (Processing(w) /\ conn[w]) => unacked[w] = <<cur[w].raw>>
        /\ ~Processing(w) => cur[w] = None

C26_TakesNextAfterLast ==
    \A w \in Workers :
        (~Processing(w) /\ Processing(w)') =>
            /\ wpc[w] = "recv" /\ wpc'[w] = "insert"
            /\ cur[w] = None
            /\ out[w] # None /\ cur'[w] = out[w]
            /\ conn[w] => unacked[w] = <<out[w].raw>>

C26_StrictlySequential ==
    [](C26_OneUnacknowledged) /\ [][C26_TakesNextAfterLast]_vars

\* The worker is writing the projection of one item while the next one
\* waits in the ready messages: the broker holds it back.
C26_Witness ==
    \E w \in Workers :
        /\ wpc[w] = "index" /\ conn[w]
        /\ unacked[w] = <<cur[w].raw>>
        /\ \E k \in 1..Len(ready) : Decodable(ready[k]) /\ ready[k] # cur[w].raw

\* --------------------------------------------------------------------
RECURSIVE CountUndecodable(_)
CountUndecodable(q) ==
    IF q = <<>> THEN 0
    ELSE (IF Decodable(Head(q)) THEN 0 ELSE 1) + CountUndecodable(Tail(q))

\* C27: a work item whose payload cannot be decoded is discarded. The
\* Consume goroutine rejects it without requeue: it leaves the queue in the
\* step that delivers it, no store is written, it is never handed to the
\* worker nor held unacknowledged, the consumer can take the next delivery,
\* and it never comes back (undecodable messages enter the queue only when a
\* publisher sends one). Checked under Spec.
C27_NeverHandedToWorker ==
    /\ CountUndecodable(ready) <= nForeign
    /\ \A w \in Workers :
          /\ CountUndecodable(unacked[w]) = 0
          /\ out[w] # None => Decodable(out[w].raw)
          /\ cur[w] # None => Decodable(cur[w].raw)

C27_RejectedWithoutRequeue ==
    /\ \A w \in Workers :
          (Deliver(w) /\ ~Decodable(Head(ready))) =>
              /\ ready' = Tail(ready)
              /\ UNCHANGED <<orders, es, out, unacked, wpc, cur>>
              /\ CanDeliver(w)'
    /\ CountUndecodable(ready') > CountUndecodable(ready)
          => nForeign' = nForeign + 1

C27_UndecodableDiscarded ==
    [](C27_NeverHandedToWorker) /\ [][C27_RejectedWithoutRequeue]_vars

\* The undecodable message was published and is gone; nothing was written
\* for it, and the consumer holds a delivery that decodes.
C27_Witness ==
    /\ nForeign = MaxForeign
    /\ CountUndecodable(ready) = 0
    /\ orders = <<>> /\ es = {}
    /\ out["w1"] # None

\* --------------------------------------------------------------------
\* C28: every delivery is terminated exactly once before the next item is
\* taken. On an open channel: while process goes from one write to the next
\* the delivery stays unacknowledged (no termination on the way); when
\* process returns, the delivery leaves the consumer's unacknowledged
\* deliveries in that step, acknowledged (after both writes) or requeued at
\* the head of the ready messages (after a failed write); an undecodable
\* delivery is rejected by the Consume goroutine in the step that delivers
\* it; and when the worker takes an item it is the consumer's only
\* unacknowledged delivery. Checked under Spec.
C28_TerminatedOnce ==
    \A w \in Workers :
        /\ (Processing(w) /\ Processing(w)' /\ conn'[w])
              => unacked'[w] = unacked[w] /\ unacked[w] = <<cur[w].raw>>
        /\ (Processing(w) /\ wpc'[w] = "recv" /\ conn[w])
              => /\ unacked[w] = <<cur[w].raw>>
                 /\ unacked'[w] = <<>>
                 /\ ready' = IF wpc[w] = "ack" THEN ready
                                                ELSE <<cur[w].raw>> \o ready
        /\ (Deliver(w) /\ ~Decodable(Head(ready)))
              => unacked'[w] = unacked[w] /\ ready' = Tail(ready)
        /\ (wpc[w] = "recv" /\ wpc'[w] = "insert" /\ conn[w])
              => unacked[w] = <<cur'[w].raw>>

C29_WithinTimeout ==
    \A w \in Workers :
        /\ elapsed[w] <= perMessageTimeout
        /\ wpc[w] = "index" => elapsed[w] <= writeTimeout

C29_ExpiryRequeues ==
    \A w \in Workers, dur \in WriteDurations :
        /\ (IndexStep(w, dur, "ok") /\ elapsed[w] + dur > perMessageTimeout)
              => /\ es' = es /\ wpc'[w] = "recv"
                 /\ ready' = <<cur[w].raw>> \o ready
                 /\ unacked'[w] = <<>>
        /\ (IndexStep(w, dur, "ok") /\ elapsed[w] + dur <= perMessageTimeout)
              => wpc'[w] = "ack" /\ HasDoc(cur[w].Order.ID)'
        /\ (InsertStep(w, dur, "ok") /\ dur > perMessageTimeout)
              => /\ orders' = orders /\ wpc'[w] = "recv"
                 /\ ready' = <<cur[w].raw>> \o ready
                 /\ unacked'[w] = <<>>

C30_HeldUntilPersisted ==
    \A i \in Ids :
        /\ creq[i].pc \in {"respond", "accepted"}
              => InQueue(i) \/ (HasRow(i) /\ HasDoc(i))
        /\ Cardinality(RowsOf(orders, i)) <= 1
        /\ Cardinality(DocsOf(es, i)) <= 1
        /\ \A w \in Workers : ~conn[w] => unacked[w] = <<>>

C30_RequeuedOnDrop ==
    \A w \in Workers :
        /\ (conn[w] /\ ~conn'[w])
              => /\ unacked'[w] = <<>>
                 /\ \A k \in 1..Len(unacked[w]) : InSeq(ready', unacked[w][k])
                 /\ Len(ready') = Len(ready) + Len(unacked[w])
        /\ \A i \in Ids :
              (Ack(w) /\ ~conn[w] /\ cur[w].Order.ID = i /\ InQueue(i))
                  => InQueue(i)'

C30_UnterminatedRedelivered ==
    [](C30_HeldUntilPersisted) /\ [][C30_RequeuedOnDrop]_vars

\* The channel of a worker that was in the middle of an item has gone (the
\* row is written, the document is not): the item is ready again, and a new
\* instance is up to take it.
C30_Witness ==
    \E i \in Ids :
        /\ creq[i].pc = "accepted"
        /\ InSeq(ready, BodyOf(i))
        /\ HasRow(i) /\ ~HasDoc(i)
        /\ wpc["w1"] = "recv" /\ conn["w1"] /\ cur["w1"] = None

\* --------------------------------------------------------------------
\* C31: the number of requeue attempts is unbounded. With a downstream
\* write that fails on every attempt (RetrySpec), a published item never
\* leaves the queue and never gets its document; every attempt that ends
\* puts the delivery back at the head of the ready messages and drops
\* nothing; and the cycle does not end: a requeued item is attempted again,
\* and an attempted item is requeued again, for ever.
AtHead(i) ==
    /\ i \in Assigned
    /\ wpc["w1"] = "recv" /\ out["w1"] = None
    /\ ready # <<>> /\ Head(ready) = BodyOf(i)

Attempting(i) == Processing("w1") /\ cur["w1"].Order.ID = i

C31_NeverTerminated ==
    \A i \in Ids :
        creq[i].pc \in {"respond", "accepted"} => InQueue(i) /\ ~HasDoc(i)

C31_EveryFailureRequeues ==
    \A w \in Workers :
        (Processing(w) /\ wpc'[w] = "recv")
            => /\ ready' = <<cur[w].raw>> \o ready
               /\ unacked[w] = <<cur[w].raw>> /\ unacked'[w] = <<>>

C31_CyclesForever ==
    \A i \in Ids :
        /\ AtHead(i) ~> Attempting(i)
        /\ Attempting(i) ~> AtHead(i)

C31_UnboundedRequeue ==
    /\ [](C31_NeverTerminated)
    /\ [][C31_EveryFailureRequeues]_vars
    /\ C31_CyclesForever

\* An item whose projection write failed in an earlier attempt is at its
\* projection write again, with its row from the first attempt, still
\* unacknowledged.
C31_Witness ==
    \E i \in Ids :
        /\ i \in projFailed
        /\ wpc["w1"] = "index" /\ cur["w1"].Order.ID = i
        /\ HasRow(i) /\ ~HasDoc(i)
        /\ unacked["w1"] = <<BodyOf(i)>>

\* --------------------------------------------------------------------
\* C32: the aggregate view changes only by a successful refresh. In every
\* state the view is the grouping of the rows the last successful refresh
\* read, and those rows are still the first rows of the table; a step that
\* changes the table (worker insert, bulk commit) leaves the view and the
\* rows GetSales returns as they were; so does a refresh that returns an
\* error or whose statement needs longer than the deadline in effect; and
\* whenever the rows GetSales returns change, a running refresh returned in
\* that step and the view is the grouping of the table of that moment.
\* Checked under ViewSpec.
C32_ViewOfLastRefresh ==
    /\ mv = GroupByDate(refreshed)
    /\ IsPrefix(refreshed, orders)
    /\ GetSales("ok").rows = TopDesc(GroupByDate(refreshed), salesLimit)

C32_OnlyRefreshChanges ==
    /\ orders' # orders => mv' = mv /\ GetSales("ok")' = GetSales("ok")
    /\ btx' # btx => mv' = mv /\ GetSales("ok")' = GetSales("ok")
    /\ \A t \in Triggers, dur \in Durations, res \in Outcomes :
          (RefreshFinishAfter(t, dur, res)
              /\ (res = "err" \/ dur > RefreshDeadline(t)))
            => mv' = mv /\ GetSales("ok")' = GetSales("ok")
    /\ (mv' # mv \/ GetSales("ok")' # GetSales("ok"))
          => \E t \in Triggers :
                /\ refr[t] = "running" /\ refr'[t] = "idle"
                /\ mv' = GroupByDate(orders)

C32_ChangesOnlyByRefresh ==
    [](C32_ViewOfLastRefresh) /\ [][C32_OnlyRefreshChanges]_vars

\* A refresh succeeded on a table that had rows; since then the worker
\* inserted a row and a bulk request committed its two, and GetSales still
\* answers what that refresh grouped, which is no longer the grouping of
\* the table.
C32_Witness ==
    /\ refreshed # <<>>
    /\ Len(orders) >= Len(refreshed) + 3
    /\ \E k \in Len(refreshed) + 1..Len(orders) : orders[k].id \in Ids
    /\ \E k \in Len(refreshed) + 1..Len(orders) : orders[k].id < 0
    /\ btx.status = 201 /\ btx.pc = "idle"
    /\ GetSales("ok").rows = TopDesc(GroupByDate(refreshed), salesLimit)
    /\ GetSales("ok").rows # TopDesc(GroupByDate(orders), salesLimit)

\* --------------------------------------------------------------------
\* C33 as stated: GetOrder answers 404 only when the cache get gave no
\* entry and the store lookup found no row; and an accepted id is answered
\* 404 only while its cache entry is absent and it has no row.
C33_NotFoundOnlyBeforeRow_AsStated ==
    \A i \in Ids, c \in Outcomes, d \in Outcomes :
        GetOrderResponse(i, c, d).status = 404 =>
            /\ CacheGet(cache, i, c) = None
            /\ d = "ok" /\ SelectOrder(orders, i) = None
            /\ creq[i].pc = "accepted" => cache[i] = None /\ ~HasRow(i)

\* C33 (amended): GetOrder answers 404 only when the cache get gave no
\* entry (the entry is absent or expired, or the get failed) and the store
\* lookup succeeded and found no row. An accepted id is answered 404 only
\* while its entry is absent or the cache get fails, its row is not
\* committed and its work item is still in the queue; a row, once there,
\* stays, so no later read of that id is answered 404. Checked under
\* ReadSpec.
C33_NotFoundMeansNoRow ==
    \A i \in Ids, c \in Outcomes, d \in Outcomes :
        GetOrderResponse(i, c, d).status = 404 =>
            /\ CacheGet(cache, i, c) = None
            /\ d = "ok" /\ SelectOrder(orders, i) = None
            /\ creq[i].pc = "accepted"
                  => /\ cache[i] = None \/ c = "err"
                     /\ ~HasRow(i)
                     /\ InQueue(i)

C33_RowStays ==
    \A i \in Ids :
        HasRow(i) =>
            /\ HasRow(i)'
            /\ \A c \in Outcomes, d \in Outcomes :
                  GetOrderResponse(i, c, d)'.status # 404

C33_NotFoundOnlyBeforeRow ==
    [](C33_NotFoundMeansNoRow) /\ [][C33_RowStays]_vars

\* Three accepted ids' cases at once: one without a cache entry and without
\* a row is answered 404; one whose entry is there is answered 404 when the
\* cache get fails and 200 HIT when it does not.
C33_Witness ==
    /\ \E i \in Ids :
          /\ creq[i].pc = "accepted" /\ cache[i] = None /\ ~HasRow(i)
          /\ GetOrderResponse(i, "ok", "ok").status = 404
    /\ \E j \in Ids :
          /\ creq[j].pc = "accepted" /\ cache[j] # None /\ ~HasRow(j)
          /\ GetOrderResponse(j, "err", "ok").status = 404
          /\ GetOrderResponse(j, "ok", "ok").xcache = "HIT"

\* --------------------------------------------------------------------
\* C34: GetOrder has no effect outside the cache. Every GetOrder step,
\* whatever the cache get, the store lookup and the back-fill answer, leaves
\* the queue (ready and unacknowledged messages), the orders table, the
\* orders index, the view and the create requests as they are, and leaves
\* every cache key but the requested one alone. The requested key changes
\* only when the answer is 200 MISS and the back-fill's SetOrder succeeds:
\* it then holds the row the store returned for that id, with a full
\* lifetime; on a hit, a 404, a 500 or a failed back-fill it is untouched.
\* Checked under ReadSpec.
C34_ReadFrame ==
    \A i \in Ids, c \in Outcomes, d \in Outcomes, b \in Outcomes :
        GetOrder(i, c, d, b) =>
            LET r == GetOrderResponse(i, c, d)
            IN  /\ UNCHANGED <<ready, unacked, out, orders, es, mv, creq, btx>>
                /\ \A j \in Ids \ {i} :
                      cache'[j] = cache[j] /\ ttl'[j] = ttl[j]
                /\ (r.xcache # "MISS" \/ b = "err")
                      => cache'[i] = cache[i] /\ ttl'[i] = ttl[i]
                /\ (r.xcache = "MISS" /\ b = "ok")
                      => /\ HasRow(i) /\ r.order = SelectOrder(orders, i)
                         /\ r.order.ID = i
                         /\ cache'[i] = Marshal(r.order)
                         /\ ttl'[i] = orderTTL

C34_ReadOnlyBackFills == [][C34_ReadFrame]_vars

\* Reads have been answered beside a pipeline at work: one id's entry can
\* only have come from a back-fill (its create's cache put had failed), its
\* item is acknowledged with row and document in place; another id is still
\* in the queue without row or cache entry, where a read is answered 404.
C34_Witness ==
    \E i, j \in Ids :
        /\ i # j
        /\ creq[i].cacheErr /\ cache[i] # None
        /\ HasRow(i) /\ HasDoc(i) /\ ~InQueue(i)
        /\ creq[j].cacheErr /\ cache[j] = None
        /\ InQueue(j) /\ ~HasRow(j)
        /\ GetOrderResponse(j, "ok", "ok").status = 404

====
